---- MODULE Spec2Model ----
(***************************************************************************)
(* Model of ReorderService (src/unnamed/part_000, lines 234-1386): the     *)
(* offline-first reorder list with its in-memory collection, the queue of  *)
(* items waiting to sync, the AsyncStorage snapshot, the SQLite table, the *)
(* remote (AppSync) record set and the real-time feed handlers.            *)
(*                                                                         *)
(* Identifiers are pairs <<kind, n>>.  An identifier minted by the device  *)
(* (offline-..., custom-...) or assigned by the server takes the smallest  *)
(* number of its kind that no record anywhere still carries.  Time is a    *)
(* discrete clock that every timestamped write advances.                   *)
(*                                                                         *)
(* The specifications share the actions.  Spec starts against an empty     *)
(* remote and records in last which call the step just taken was and the   *)
(* path it took, so that calls that change nothing are visible.            *)
(* SpecSeeded starts against a remote that already holds a record of       *)
(* another catalog item, adds items and refreshes, and records nothing in  *)
(* last.  SpecBus adds the                                                 *)
(* listener bus (addListener, the arrays handed to callbacks) to the calls *)
(* that broadcast, SpecCache runs the team-data cache against a wall       *)
(* clock, SpecRefresh runs refresh under weak fairness of its steps, and   *)
(* SpecEmergency runs a build whose feed is disabled against a remote that *)
(* always answers.  SpecQueued starts from a device that was initialized   *)
(* while unreachable and holds one queued record, SpecShared removes and   *)
(* refreshes next to the record of another device under weak fairness of   *)
(* the successful refresh.  SpecHttp is the retry logic of the HTTP client *)
(* (src/unnamed/part_001, lines 322-620) and SpecScan the scan history of  *)
(* the app store (src/unnamed/part_000, lines 101-164).                    *)
(* Variables of a part that a specification leaves out keep their initial  *)
(* value in it.                                                            *)
(***************************************************************************)
EXTENDS Integers, Sequences, FiniteSets, TLC

\* ------------------------------------------------------------------ bounds

\* Number of identifiers (device-minted or server-assigned) alive at a time.
MaxIds == 3
\* Largest quantity of a record.
MaxQty == 2
\* Number of timestamped writes in one behaviour.
MaxClock == 2
\* Subscription sets held at a time (initialize adds one, cleanup drops all).
MaxSubSets == 1
\* Listeners registered at a time.
MaxListeners == 2
\* Largest reading of the wall clock, in minutes.
MaxWall == 6
\* CACHE_DURATION = 5 * 60 * 1000 ms, in minutes.
CACHE_DURATION == 5
\* Largest count of a request's RetryConfig.
MaxRetryCount == 2
\* Number of distinct scan ids.
MaxScanIds == 4
\* The history size of line 160 (100 in the source), scaled to the scan ids.
SCAN_HISTORY_LIMIT == 3

\* The catalog items (ConvertedItem.id): the caller adds the first, a record of
\* the second may wait on the remote when the first process starts.
Catalog == {<<"cat", 1>>, <<"cat", 2>>}
Items == {<<"cat", 1>>}
\* Quantities the caller passes to addItem and addCustomItem.
Quantities == 1..(MaxQty - 1)
\* Values of the userId argument of initialize; "undefined" is the omitted argument.
Users == {"u1"}
\* The same with the omitted argument.
Actors == Users \cup {"undefined"}
\* Payloads of the team data of a catalog item.
TeamPayloads == {"v1", "v2"}

Null == "null"
\* No record id (identifiers are pairs of a kind and a number).
NoId == <<"none", 0>>

VARIABLES
    reorderItems,       \* ReorderService.reorderItems
    pendingSyncItems,   \* ReorderService.pendingSyncItems
    isOfflineMode,      \* ReorderService.isOfflineMode
    isInitialized,      \* ReorderService.isInitialized
    currentUserId,      \* ReorderService.currentUserId
    subscriptions,      \* number of subscription sets held in this.subscriptions
    emergencyMode,      \* process.env.EXPO_PUBLIC_EMERGENCY_MODE === 'true'
    storage,            \* AsyncStorage value under STORAGE_KEY: [present, items]
    localDb,            \* rows of the SQLite table reorder_items
    remote,             \* records held by the remote service
    clock,              \* current time: the number of timestamped writes so far
    refreshPc,          \* position of the refresh() in flight: idle, sync
    flushArr,           \* the array object syncPendingItems iterates over
    flushSame,          \* flushArr is still the object this.pendingSyncItems refers to
    flushIdx,           \* position of the for-of iterator in flushArr
    syncedItems,        \* syncPendingItems' local syncedItems
    observe,            \* last and diedWith are recorded (Spec)
    diedWith,           \* ids waiting in the queue when the process last died
    last,               \* the operation the step just taken was, and its path
    notified,           \* notifyListeners() calls the step just taken made
    listeners,          \* ReorderService.listeners, one record per callback
    orphans,            \* callbacks removed from listeners whose call of line 642 is still to come
    http,               \* the request apiClient is working on (src/unnamed/part_001)
    scanHistory,        \* useAppStore.scanHistory
    handed,             \* the array most recently handed out by a callback or getItems
    handedLive,         \* the elements of handed are the objects reorderItems holds
    teamDataCache,      \* ReorderService.teamDataCache
    teamDb,             \* rows of the SQLite table of team data
    wall,               \* Date.now(), in minutes
    fetched,            \* what the last fetchTeamData did and returned
    history             \* itemHistoryService.logReorder calls of the step just taken

vars == <<reorderItems, pendingSyncItems, isOfflineMode, isInitialized, currentUserId,
          subscriptions, emergencyMode, storage, localDb, remote, clock, refreshPc,
          flushArr, flushSame, flushIdx, syncedItems, observe, diedWith, last,
          notified, listeners, orphans, handed, handedLive, teamDataCache, teamDb, wall,
          fetched, http, scanHistory,
          history>>

\* The fields and stores of the reorder list itself.
engineVars == <<reorderItems, pendingSyncItems, isOfflineMode, isInitialized, currentUserId,
                subscriptions, emergencyMode, storage, localDb, remote, clock, refreshPc,
                flushArr, flushSame, flushIdx, syncedItems, observe, diedWith>>

\* The listener bus.
busVars == <<notified, listeners, orphans, handed, handedLive>>

\* The HTTP client and the app store, which the reorder list does not touch.
appVars == <<http, scanHistory>>

\* The enrichment cache.
cacheVars == <<teamDataCache, teamDb, wall, fetched>>

\* ------------------------------------------------------------------ records

\* A ReorderItem as held in this.reorderItems.
Item(id, itemId, quantity, completed, createdAt, updatedAt, index) ==
    [id |-> id, itemId |-> itemId, quantity |-> quantity, completed |-> completed,
     createdAt |-> createdAt, updatedAt |-> updatedAt, index |-> index]

\* An entry of pendingSyncItems.  live is TRUE while the entry is the very object
\* that reorderItems holds (addCustomItem pushes newItem itself), FALSE for a
\* spread copy { ...item }.
Pending(r, live) ==
    [id |-> r.id, itemId |-> r.itemId, quantity |-> r.quantity, completed |-> r.completed,
     createdAt |-> r.createdAt, updatedAt |-> r.updatedAt, index |-> r.index, live |-> live]

\* A record of the remote service / a row of reorder_items.
Row(r) ==
    [id |-> r.id, itemId |-> r.itemId, quantity |-> r.quantity, completed |-> r.completed,
     createdAt |-> r.createdAt, updatedAt |-> r.updatedAt]

Ids(s) == {s[i].id : i \in 1..Len(s)}
IdsOf(S) == {r.id : r \in S}
ItemIds(s) == {s[i].itemId : i \in 1..Len(s)}
ItemIdsOf(S) == {r.itemId : r \in S}

\* Array.prototype.findIndex by id, 0 standing for -1.
FindIndexById(s, id) ==
    IF \E i \in 1..Len(s) : s[i].id = id
    THEN CHOOSE i \in 1..Len(s) : s[i].id = id /\ \A j \in 1..(i - 1) : s[j].id # id
    ELSE 0

\* Array.prototype.findIndex by itemId, 0 standing for -1.
FindIndexByItemId(s, itemId) ==
    IF \E i \in 1..Len(s) : s[i].itemId = itemId
    THEN CHOOSE i \in 1..Len(s) :
             s[i].itemId = itemId /\ \A j \in 1..(i - 1) : s[j].itemId # itemId
    ELSE 0

\* items.forEach((item, index) => { item.index = index + 1 })
Reindex(s) == [i \in 1..Len(s) |-> [s[i] EXCEPT !.index = i]]

\* Array.prototype.filter(item => item.id !== id)
FilterOutId(s, id) == SelectSeq(s, LAMBDA r : r.id # id)

\* ------------------------------------------------------------------ identifiers and time

\* Every identifier some record still carries, as id or as itemId.
UsedIds ==
    (Ids(reorderItems) \cup ItemIds(reorderItems) \cup Ids(pendingSyncItems)
       \cup ItemIds(pendingSyncItems) \cup Ids(flushArr) \cup ItemIds(flushArr)
       \cup Ids(storage.items) \cup ItemIds(storage.items) \cup IdsOf(localDb)
       \cup ItemIdsOf(localDb) \cup IdsOf(remote) \cup ItemIdsOf(remote)
       \cup {syncedItems[k] : k \in 1..Len(syncedItems)}) \ Catalog

\* There is room for k more identifiers.
CanMint(k) == Cardinality(UsedIds) + k <= MaxIds

\* `offline-${Date.now()}-${Math.random()...}`, `custom-...`, a server-assigned id:
\* an identifier of this kind that nothing carries.
Mint(kind) ==
    <<kind, CHOOSE n \in 1..(MaxIds + 1) :
                /\ <<kind, n>> \notin UsedIds
                /\ \A m \in 1..(n - 1) : <<kind, m>> \in UsedIds>>

\* k timestamped writes can still happen.
CanStamp(k) == clock + k <= MaxClock

\* The time of the k-th timestamped write of this step.
Stamp(k) == clock + k

\* ------------------------------------------------------------------ object sharing

\* In-place re-indexing seen through another array: an entry that is the same
\* object as a record of items shows that record's new index; an entry whose
\* object is no longer in items is held by this array alone.
Relink(arr, items) ==
    [i \in 1..Len(arr) |->
        IF arr[i].live
        THEN IF arr[i].id \in Ids(items)
             THEN [arr[i] EXCEPT !.index = items[FindIndexById(items, arr[i].id)].index]
             ELSE [arr[i] EXCEPT !.live = FALSE]
        ELSE arr[i]]

\* The records with these ids were replaced by new objects in reorderItems.
Unlink(arr, ids) ==
    [i \in 1..Len(arr) |-> IF arr[i].id \in ids THEN [arr[i] EXCEPT !.live = FALSE] ELSE arr[i]]

\* A record object r was assigned to in place (item.completed = ..., item.quantity = ...).
MutateLive(arr, r) ==
    [i \in 1..Len(arr) |-> IF arr[i].live /\ arr[i].id = r.id THEN Pending(r, TRUE) ELSE arr[i]]

\* The array the flush in flight iterates, and whether it is still this.pendingSyncItems.
\* newPend is the new content of this.pendingSyncItems, reassigned tells that the
\* field was assigned a new array, detached is the old array object after the step.
NextFlushArr(newPend, reassigned, detached) ==
    IF refreshPc # "sync" THEN << >>
    ELSE IF flushSame /\ ~reassigned THEN newPend
    ELSE detached

NextFlushSame(reassigned) == refreshPc = "sync" /\ flushSame /\ ~reassigned

\* ------------------------------------------------------------------ observation

NoObs == [op |-> "none", path |-> "none", id |-> NoId]

Obs(op, path, id) == IF observe THEN [op |-> op, path |-> path, id |-> id] ELSE NoObs

\* ------------------------------------------------------------------ remote service

\* Outcomes of one mutation sent to the remote service:
\*   ok      applied, the response carries the record
\*   fail    not applied, the call throws (auth or network error)
\*   lost    applied, but the call throws (the response never arrives)
\*   nodata  not applied, the call resolves with no record in response.data
Outcomes == {"ok", "fail", "lost", "nodata"}
Applied(o) == o \in {"ok", "lost"}
Throws(o) == o \in {"fail", "lost"}

\* createReorderItem: the server assigns the id and both timestamps.
RemoteCreate(rem, id, itemId, quantity, completed, now) ==
    rem \cup {[id |-> id, itemId |-> itemId, quantity |-> quantity,
               completed |-> completed, createdAt |-> now, updatedAt |-> now]}

\* updateReorderItem with input {id, quantity}.
RemoteSetQuantity(rem, id, quantity, now) ==
    {IF r.id = id THEN [r EXCEPT !.quantity = quantity, !.updatedAt = now] ELSE r : r \in rem}

\* updateReorderItem with input {id, completed}.
RemoteSetCompleted(rem, id, completed, now) ==
    {IF r.id = id THEN [r EXCEPT !.completed = completed, !.updatedAt = now] ELSE r : r \in rem}

\* deleteReorderItem.
RemoteDelete(rem, id) == {r \in rem : r.id # id}


\* ------------------------------------------------------------------ listeners

\* A callback in this.listeners.  waiting: it was the first one, pushed before
\* initialization, and the call of line 642 is still to come; early: it was called
\* while waiting, at a moment when isInitialized was false.
Listener(waiting) == [waiting |-> waiting, early |-> FALSE]

\* The callbacks after a notifyListeners(); early tells that isInitialized was false.
Invoked(ls, early) ==
    [i \in 1..Len(ls) |->
        IF ls[i].waiting /\ early THEN [ls[i] EXCEPT !.early = TRUE] ELSE ls[i]]

\* Line 642: the deferred call of the first callback, once initialize resolved.
Resolved(ls) == [i \in 1..Len(ls) |-> [ls[i] EXCEPT !.waiting = FALSE]]

\* Lines 655-657, called n times in a step that leaves the collection as items:
\* every callback gets [...this.reorderItems], an array of the live objects.
NotifyListeners(n, items, early) ==
    /\ notified' = IF observe THEN n ELSE 0
    /\ listeners' = IF n > 0 THEN Invoked(listeners, early) ELSE listeners
    /\ orphans' = orphans
    /\ handed' = IF n > 0 /\ Len(listeners) > 0 THEN items ELSE handed
    /\ handedLive' = (n > 0 /\ Len(listeners) > 0)

\* A step that never reaches a notifyListeners().
Quiet == NotifyListeners(0, reorderItems, FALSE)

\* OnlineNotifies with a broadcast after the confirmed response.
OnlineNotifiesOnce(op) == 1

\* Lines 731-781, 904-914, 985-1000 and 1148-1175: the online path of the call op
\* never reaches a notifyListeners(); the broadcast is left to the feed handlers.
OnlineNotifies(op) == 0

\* Some callback is called by n broadcasts followed by the deferred calls.
Called(ls, n) == (n > 0 /\ Len(ls) > 0) \/ \E i \in 1..Len(ls) : ls[i].waiting

\* The broadcasts of initialize, and the then() of line 640 once it resolved.  The
\* then() calls the callback it captured, in this.listeners or not: the step
\* either ends the call a removed callback waits for, or the one the callback still
\* registered waits for.
InitializeNotify(n, items, early) ==
    /\ notified' = IF observe THEN n ELSE 0
    /\ \/ /\ orphans > 0
          /\ orphans' = orphans - 1
          /\ listeners' = IF n > 0 THEN Invoked(listeners, early) ELSE listeners
          /\ handed' = items
          /\ handedLive' = TRUE
       \/ /\ orphans' = orphans
          /\ listeners' = Resolved(IF n > 0 THEN Invoked(listeners, early) ELSE listeners)
          /\ handed' = IF Called(listeners, n) THEN items ELSE handed
          /\ handedLive' = Called(listeners, n)

\* ------------------------------------------------------------------ enrichment cache

\* No entry under this key of teamDataCache / no row in the table.
NoEntry == [present |-> FALSE, data |-> "none", timestamp |-> 0]
NoRow == "none"

\* teamDataCache.set(itemId, { data, timestamp: Date.now() })
CacheEntry(data, now) == [present |-> TRUE, data |-> data, timestamp |-> now]

\* CacheHit that trusts an entry only at the instant it was written.
CacheHitSameInstant(entry, now) == entry.present /\ now = entry.timestamp

\* Line 544: cached && (Date.now() - cached.timestamp) < this.CACHE_DURATION
CacheHit(entry, now) == entry.present /\ (now - entry.timestamp) < CACHE_DURATION

\* No call of the history logger.
NoHistory == [calls |-> 0, failed |-> FALSE]

\* logReorder was called calls times in this step, and threw when ~logOk.
Logged(calls, logOk) ==
    history' = IF observe /\ calls > 0 THEN [calls |-> calls, failed |-> ~logOk] ELSE NoHistory

\* A step that does not reach the history logger.
Unlogged == history' = NoHistory

\* Nothing was fetched yet.
NoFetch == [id |-> NoId, result |-> "none", lookups |-> 0, calls |-> 0]
\* ------------------------------------------------------------------ addItem

\* NewQuantity with the overwrite flag ignored: the quantity is always summed.
NewQuantityAdd(existing, quantity, overwriteMode) == existing.quantity + quantity

\* Lines 683-687 / 796-800 / 735: additive or overwriting quantity.
NewQuantity(existing, quantity, overwriteMode) ==
    IF overwriteMode THEN quantity ELSE existing.quantity + quantity

\* UpsertPending without the findIndex: the snapshot is always pushed.
UpsertPendingAppend(pend, item) == Append(pend, Pending(item, FALSE))

\* Lines 691-696 / 804-809 / 969-974: replace the entry with this id or append one.
UpsertPending(pend, item) ==
    IF FindIndexById(pend, item.id) > 0
    THEN [pend EXCEPT ![FindIndexById(pend, item.id)] = Pending(item, FALSE)]
    ELSE Append(pend, Pending(item, FALSE))

\* Lines 680-718 and 793-831: the collection after the local commit of addItem;
\* newId is the identifier minted if a record is created, now the device time.
LocalAddItems(items, itemId, quantity, overwriteMode, newId, now) ==
    IF FindIndexByItemId(items, itemId) > 0
    THEN [items EXCEPT ![FindIndexByItemId(items, itemId)] =
              [@ EXCEPT !.quantity = NewQuantity(items[FindIndexByItemId(items, itemId)],
                                                 quantity, overwriteMode),
                        !.updatedAt = now]]
    ELSE Append(items, Item(newId, itemId, quantity, FALSE, now, now, Len(items) + 1))

\* The id of the record addItem updates or creates.
LocalAddTarget(items, itemId, newId) ==
    IF FindIndexByItemId(items, itemId) > 0
    THEN items[FindIndexByItemId(items, itemId)].id
    ELSE newId

\* The queue after the local commit of addItem on the record with this id.
LocalAddPending(pend, newItems, id) ==
    UpsertPending(MutateLive(pend, newItems[FindIndexById(newItems, id)]),
                  newItems[FindIndexById(newItems, id)])

\* JSON.stringify(this.reorderItems) written under STORAGE_KEY.
SaveOfflineItems(items) == [present |-> TRUE, items |-> items]

\* The quantity addItem would write stays within the model's range.
AddItemInRange(itemId, quantity, overwriteMode) ==
    FindIndexByItemId(reorderItems, itemId) > 0 =>
        NewQuantity(reorderItems[FindIndexByItemId(reorderItems, itemId)], quantity,
                    overwriteMode) <= MaxQty

\* The local commit of addItem (lines 680-728 and 786-841) at the k-th stamp.
AddItemLocally(itemId, quantity, overwriteMode, k, path) ==
    LET newId == Mint("offline")
        now == Stamp(k)
        target == LocalAddTarget(reorderItems, itemId, newId)
        newItems == LocalAddItems(reorderItems, itemId, quantity, overwriteMode, newId, now)
        newPend == LocalAddPending(pendingSyncItems, newItems, target)
    IN /\ reorderItems' = newItems
       /\ pendingSyncItems' = newPend
       /\ flushArr' = NextFlushArr(newPend, FALSE,
                                   MutateLive(flushArr, newItems[FindIndexById(newItems, target)]))
       /\ flushSame' = NextFlushSame(FALSE)
       /\ storage' = SaveOfflineItems(newItems)
       /\ clock' = clock + k
       /\ NotifyListeners(1, newItems, ~isInitialized)
       /\ UNCHANGED cacheVars
       /\ Unlogged
       /\ UNCHANGED appVars
       /\ last' = Obs("addItem", path, target)

AddItemOffline(itemId, quantity, overwriteMode) ==
    /\ isOfflineMode
    /\ AddItemInRange(itemId, quantity, overwriteMode)
    /\ CanStamp(1)
    /\ FindIndexByItemId(reorderItems, itemId) = 0 => CanMint(1)
    /\ AddItemLocally(itemId, quantity, overwriteMode, 1, "offline")
    /\ UNCHANGED <<isOfflineMode, isInitialized, currentUserId, subscriptions, emergencyMode,
                   localDb, remote, refreshPc, flushIdx, syncedItems, observe, diedWith>>

\* Lines 731-781: what the remote holds once it applied the mutation addItem sends.
AddItemRemote(rem, items, itemId, quantity, overwriteMode, newId, now) ==
    IF FindIndexByItemId(items, itemId) > 0
    THEN RemoteSetQuantity(rem, items[FindIndexByItemId(items, itemId)].id,
                           NewQuantity(items[FindIndexByItemId(items, itemId)], quantity,
                                       overwriteMode), now)
    ELSE RemoteCreate(rem, newId, itemId, quantity, FALSE, now)

\* The remote can apply the mutation addItem sends: an update needs its target,
\* a creation an identifier.
AddItemCanApply(itemId) ==
    IF FindIndexByItemId(reorderItems, itemId) > 0
    THEN reorderItems[FindIndexByItemId(reorderItems, itemId)].id \in IdsOf(remote)
    ELSE CanMint(1)

\* Lines 731-781 with a response that did not throw: nothing changes locally, and
\* the call returns true only when the response carries the record.
AddItemOnline(itemId, quantity, overwriteMode, outcome) ==
    /\ ~isOfflineMode
    /\ ~Throws(outcome)
    /\ AddItemInRange(itemId, quantity, overwriteMode)
    /\ Applied(outcome) => (AddItemCanApply(itemId) /\ CanStamp(1))
    /\ remote' = IF Applied(outcome)
                 THEN AddItemRemote(remote, reorderItems, itemId, quantity, overwriteMode,
                                    Mint("srv"), Stamp(1))
                 ELSE remote
    /\ clock' = IF Applied(outcome) THEN clock + 1 ELSE clock
    /\ NotifyListeners(OnlineNotifies("addItem"), reorderItems, ~isInitialized)
    /\ UNCHANGED cacheVars
    /\ Unlogged
    /\ UNCHANGED appVars
    /\ last' = Obs("addItem", IF outcome = "ok" THEN "online" ELSE "nodata",
                   LocalAddTarget(reorderItems, itemId, NoId))
    /\ UNCHANGED <<reorderItems, pendingSyncItems, isOfflineMode, isInitialized, currentUserId,
                   subscriptions, emergencyMode, storage, localDb, refreshPc, flushArr,
                   flushSame, flushIdx, syncedItems, observe, diedWith>>

\* Lines 782-842: the remote call threw; the catch block commits locally.
AddItemFallback(itemId, quantity, overwriteMode, outcome) ==
    /\ ~isOfflineMode
    /\ Throws(outcome)
    /\ AddItemInRange(itemId, quantity, overwriteMode)
    /\ Applied(outcome) => AddItemCanApply(itemId)
    /\ CanStamp(IF Applied(outcome) THEN 2 ELSE 1)
    /\ FindIndexByItemId(reorderItems, itemId) = 0 =>
           CanMint(IF Applied(outcome) THEN 2 ELSE 1)
    /\ remote' = IF Applied(outcome)
                 THEN AddItemRemote(remote, reorderItems, itemId, quantity, overwriteMode,
                                    Mint("srv"), Stamp(1))
                 ELSE remote
    /\ isOfflineMode' = TRUE
    /\ AddItemLocally(itemId, quantity, overwriteMode, IF Applied(outcome) THEN 2 ELSE 1,
                      "fallback")
    /\ UNCHANGED <<isInitialized, currentUserId, subscriptions, emergencyMode, localDb, refreshPc, flushIdx, syncedItems, observe, diedWith>>

AddItem(itemId, quantity, overwriteMode, outcome) ==
    \/ AddItemOffline(itemId, quantity, overwriteMode)
    \/ AddItemOnline(itemId, quantity, overwriteMode, outcome)
    \/ AddItemFallback(itemId, quantity, overwriteMode, outcome)

\* ------------------------------------------------------------------ removeItem

\* LocalRemoveItems without the forEach that re-indexes the rest.
LocalRemoveItemsNoReindex(items, id) == FilterOutId(items, id)

\* Lines 883-894 / 920-930: splice the record out and re-index the rest.
LocalRemoveItems(items, id) ==
    IF FindIndexById(items, id) > 0 THEN Reindex(FilterOutId(items, id)) ELSE items

\* Lines 889 / 925: this.pendingSyncItems = this.pendingSyncItems.filter(...)
LocalRemovePending(pend, items, id) ==
    IF FindIndexById(items, id) > 0
    THEN Relink(FilterOutId(pend, id), LocalRemoveItems(items, id))
    ELSE pend

\* The local commit of removeItem (offline path and catch block).
RemoveLocally(id, path) ==
    LET found == FindIndexById(reorderItems, id) > 0
        newItems == LocalRemoveItems(reorderItems, id)
        newPend == LocalRemovePending(pendingSyncItems, reorderItems, id)
    IN /\ reorderItems' = newItems
       /\ pendingSyncItems' = newPend
       /\ flushArr' = NextFlushArr(newPend, found, Relink(flushArr, newItems))
       /\ flushSame' = NextFlushSame(found)
       /\ storage' = IF found THEN SaveOfflineItems(newItems) ELSE storage
       /\ NotifyListeners(IF found THEN 1 ELSE 0, newItems, ~isInitialized)
       /\ UNCHANGED cacheVars
       /\ Unlogged
       /\ UNCHANGED appVars
       /\ last' = Obs("removeItem", path, IF found THEN id ELSE NoId)

\* RemoveItemOffline that takes the session back online once the removal is done.
RemoveItemOfflineResets(id) ==
    /\ isOfflineMode
    /\ RemoveLocally(id, "offline")
    /\ isOfflineMode' = FALSE
    /\ UNCHANGED <<isInitialized, currentUserId, subscriptions, emergencyMode,
                   localDb, remote, clock, refreshPc, flushIdx, syncedItems, observe, diedWith>>

\* Lines 881-900: the session is offline; the removal is committed locally.
RemoveItemOffline(id) ==
    /\ isOfflineMode
    /\ RemoveLocally(id, "offline")
    /\ UNCHANGED <<isOfflineMode, isInitialized, currentUserId, subscriptions, emergencyMode,
                   localDb, remote, clock, refreshPc, flushIdx, syncedItems, observe, diedWith>>

\* Lines 904-914: the response did not throw; nothing changes locally.
RemoveItemOnline(id, outcome) ==
    /\ ~isOfflineMode
    /\ ~Throws(outcome)
    /\ Applied(outcome) => id \in IdsOf(remote)
    /\ remote' = IF Applied(outcome) THEN RemoteDelete(remote, id) ELSE remote
    /\ NotifyListeners(OnlineNotifies("removeItem"), reorderItems, ~isInitialized)
    /\ UNCHANGED cacheVars
    /\ Unlogged
    /\ UNCHANGED appVars
    /\ last' = Obs("removeItem", IF outcome = "ok" THEN "online" ELSE "nodata", id)
    /\ UNCHANGED <<reorderItems, pendingSyncItems, isOfflineMode, isInitialized, currentUserId,
                   subscriptions, emergencyMode, storage, localDb, clock, refreshPc,
                   flushArr, flushSame, flushIdx, syncedItems, observe, diedWith>>

\* Lines 915-937: the remote call threw.
RemoveItemFallback(id, outcome) ==
    /\ ~isOfflineMode
    /\ Throws(outcome)
    /\ Applied(outcome) => id \in IdsOf(remote)
    /\ remote' = IF Applied(outcome) THEN RemoteDelete(remote, id) ELSE remote
    /\ isOfflineMode' = TRUE
    /\ RemoveLocally(id, "fallback")
    /\ UNCHANGED <<isInitialized, currentUserId, subscriptions, emergencyMode, localDb, clock,
                   refreshPc, flushIdx, syncedItems, observe, diedWith>>

RemoveItem(id, outcome) ==
    \/ RemoveItemOffline(id)
    \/ RemoveItemOnline(id, outcome)
    \/ RemoveItemFallback(id, outcome)

\* ------------------------------------------------------------------ toggleCompletion

\* Lines 949 / 1011: history is tracked for catalog items that become completed.
ShouldLog(item) == ~item.completed /\ item.itemId # item.id

\* LogCalls without the condition of line 949: every toggle is logged.
LogCallsAlways(item, path) == IF path = "fallback" THEN 2 ELSE 1

\* Calls of logReorder one toggleCompletion makes for this record: the one of
\* line 951 and, when the remote call threw, the one of line 1013 in the catch.
LogCalls(item, path) ==
    IF ShouldLog(item) THEN (IF path = "fallback" THEN 2 ELSE 1) ELSE 0

\* Lines 965-966 / 1024-1025.
Toggled(item, now) == [item EXCEPT !.completed = ~item.completed, !.updatedAt = now]

LocalToggleItems(items, id, now) ==
    [items EXCEPT ![FindIndexById(items, id)] = Toggled(items[FindIndexById(items, id)], now)]

\* The local commit of toggleCompletion (offline path and catch block) at the k-th stamp.
ToggleLocally(id, k, path, logOk) ==
    LET newItems == LocalToggleItems(reorderItems, id, Stamp(k))
        item == newItems[FindIndexById(newItems, id)]
        newPend == UpsertPending(MutateLive(pendingSyncItems, item), item)
    IN /\ reorderItems' = newItems
       /\ pendingSyncItems' = newPend
       /\ flushArr' = NextFlushArr(newPend, FALSE, MutateLive(flushArr, item))
       /\ flushSame' = NextFlushSame(FALSE)
       /\ storage' = SaveOfflineItems(newItems)
       /\ clock' = clock + k
       /\ NotifyListeners(1, newItems, ~isInitialized)
       /\ UNCHANGED cacheVars
       /\ Logged(LogCalls(reorderItems[FindIndexById(reorderItems, id)], path), logOk)
       /\ UNCHANGED appVars
       /\ last' = Obs("toggleCompletion", path, id)

\* Line 944: if (!item) return.
ToggleMissing(id) ==
    /\ FindIndexById(reorderItems, id) = 0
    /\ Quiet
    /\ UNCHANGED cacheVars
    /\ Unlogged
    /\ UNCHANGED appVars
    /\ last' = Obs("toggleCompletion", "missing", NoId)
    /\ UNCHANGED <<reorderItems, pendingSyncItems, isOfflineMode, isInitialized, currentUserId,
                   subscriptions, emergencyMode, storage, localDb, remote, clock, refreshPc, flushArr, flushSame, flushIdx, syncedItems, observe, diedWith>>

\* Lines 963-983: the session is offline; the toggle is committed locally whatever
\* the history logger did (its failure is caught at line 957).
ToggleOffline(id, logOk) ==
    /\ FindIndexById(reorderItems, id) > 0
    /\ isOfflineMode
    /\ CanStamp(1)
    /\ ToggleLocally(id, 1, "offline", logOk)
    /\ UNCHANGED <<isOfflineMode, isInitialized, currentUserId, subscriptions, emergencyMode,
                   localDb, remote, refreshPc, flushIdx, syncedItems, observe, diedWith>>

\* Lines 985-994: what the remote holds once it applied the update.
ToggleRemote(rem, items, id, now) ==
    RemoteSetCompleted(rem, id, ~items[FindIndexById(items, id)].completed, now)

\* Lines 985-1000: the response did not throw; nothing changes locally.
ToggleOnline(id, outcome, logOk) ==
    /\ FindIndexById(reorderItems, id) > 0
    /\ ~isOfflineMode
    /\ ~Throws(outcome)
    /\ Applied(outcome) => (id \in IdsOf(remote) /\ CanStamp(1))
    /\ remote' = IF Applied(outcome) THEN ToggleRemote(remote, reorderItems, id, Stamp(1))
                 ELSE remote
    /\ clock' = IF Applied(outcome) THEN clock + 1 ELSE clock
    /\ NotifyListeners(OnlineNotifies("toggleCompletion"), reorderItems, ~isInitialized)
    /\ UNCHANGED cacheVars
    /\ Logged(LogCalls(reorderItems[FindIndexById(reorderItems, id)], "online"), logOk)
    /\ UNCHANGED appVars
    /\ last' = Obs("toggleCompletion", IF outcome = "ok" THEN "online" ELSE "nodata", id)
    /\ UNCHANGED <<reorderItems, pendingSyncItems, isOfflineMode, isInitialized, currentUserId,
                   subscriptions, emergencyMode, storage, localDb, refreshPc, flushArr,
                   flushSame, flushIdx, syncedItems, observe, diedWith>>

\* Lines 1001-1038: the remote call threw.
ToggleFallback(id, outcome, logOk) ==
    /\ FindIndexById(reorderItems, id) > 0
    /\ ~isOfflineMode
    /\ Throws(outcome)
    /\ Applied(outcome) => id \in IdsOf(remote)
    /\ CanStamp(IF Applied(outcome) THEN 2 ELSE 1)
    /\ remote' = IF Applied(outcome) THEN ToggleRemote(remote, reorderItems, id, Stamp(1))
                 ELSE remote
    /\ isOfflineMode' = TRUE
    /\ ToggleLocally(id, IF Applied(outcome) THEN 2 ELSE 1, "fallback", logOk)
    /\ UNCHANGED <<isInitialized, currentUserId, subscriptions, emergencyMode, localDb, refreshPc, flushIdx, syncedItems, observe, diedWith>>

ToggleCompletion(id, outcome, logOk) ==
    \/ ToggleMissing(id)
    \/ ToggleOffline(id, logOk)
    \/ ToggleOnline(id, outcome, logOk)
    \/ ToggleFallback(id, outcome, logOk)

\* ------------------------------------------------------------------ addCustomItem

\* Lines 1119-1134 / 1186-1201: id and itemId are the same minted customId.
NewCustomItem(items, customId, quantity, now) ==
    Item(customId, customId, quantity, FALSE, now, now, Len(items) + 1)

\* Lines 1138 / 1203: this.reorderItems.unshift(newItem)
CustomItems(items, newItem) == <<newItem>> \o items

\* Lines 1139 / 1204: this.pendingSyncItems.push(newItem), the object itself.
CustomPending(pend, newItem) == Append(pend, Pending(newItem, TRUE))

\* The local commit of addCustomItem (lines 1138-1141 and 1203-1206) at the k-th stamp.
CustomLocally(customId, quantity, k, path) ==
    LET newItem == NewCustomItem(reorderItems, customId, quantity, Stamp(k))
        newItems == CustomItems(reorderItems, newItem)
        newPend == CustomPending(pendingSyncItems, newItem)
    IN /\ reorderItems' = newItems
       /\ pendingSyncItems' = newPend
       /\ flushArr' = NextFlushArr(newPend, FALSE, flushArr)
       /\ flushSame' = NextFlushSame(FALSE)
       /\ storage' = SaveOfflineItems(newItems)
       /\ clock' = clock + k
       /\ NotifyListeners(1, newItems, ~isInitialized)
       /\ UNCHANGED cacheVars
       /\ Unlogged
       /\ UNCHANGED appVars
       /\ last' = Obs("addCustomItem", path, customId)

\* The second identifier of a kind minted in one step.
MintNext(kind) ==
    <<kind, CHOOSE n \in 1..(MaxIds + 2) :
                /\ <<kind, n>> \notin UsedIds \cup {Mint(kind)}
                /\ \A m \in 1..(n - 1) : <<kind, m>> \in UsedIds \cup {Mint(kind)}>>

AddCustomOffline(quantity) ==
    /\ isOfflineMode
    /\ CanStamp(1)
    /\ CanMint(1)
    /\ CustomLocally(Mint("custom"), quantity, 1, "offline")
    /\ UNCHANGED <<isOfflineMode, isInitialized, currentUserId, subscriptions, emergencyMode,
                   localDb, remote, refreshPc, flushIdx, syncedItems, observe, diedWith>>

\* Lines 1148-1175: the customId minted in the try block reaches the remote as
\* itemId; nothing changes locally.
AddCustomOnline(quantity, outcome) ==
    /\ ~isOfflineMode
    /\ ~Throws(outcome)
    /\ Applied(outcome) => (CanMint(2) /\ CanStamp(1))
    /\ remote' = IF Applied(outcome)
                 THEN RemoteCreate(remote, Mint("srv"), Mint("custom"), quantity, FALSE,
                                   Stamp(1))
                 ELSE remote
    /\ clock' = IF Applied(outcome) THEN clock + 1 ELSE clock
    /\ NotifyListeners(OnlineNotifies("addCustomItem"), reorderItems, ~isInitialized)
    /\ UNCHANGED cacheVars
    /\ Unlogged
    /\ UNCHANGED appVars
    /\ last' = Obs("addCustomItem", IF outcome = "ok" THEN "online" ELSE "nodata", NoId)
    /\ UNCHANGED <<reorderItems, pendingSyncItems, isOfflineMode, isInitialized, currentUserId,
                   subscriptions, emergencyMode, storage, localDb, refreshPc, flushArr,
                   flushSame, flushIdx, syncedItems, observe, diedWith>>

\* Lines 1176-1209: the remote call threw; a second customId is minted.
AddCustomFallback(quantity, outcome) ==
    /\ ~isOfflineMode
    /\ Throws(outcome)
    /\ CanMint(IF Applied(outcome) THEN 3 ELSE 1)
    /\ CanStamp(IF Applied(outcome) THEN 2 ELSE 1)
    /\ remote' = IF Applied(outcome)
                 THEN RemoteCreate(remote, Mint("srv"), Mint("custom"), quantity, FALSE,
                                   Stamp(1))
                 ELSE remote
    /\ isOfflineMode' = TRUE
    /\ CustomLocally(IF Applied(outcome) THEN MintNext("custom") ELSE Mint("custom"),
                     quantity, IF Applied(outcome) THEN 2 ELSE 1, "fallback")
    /\ UNCHANGED <<isInitialized, currentUserId, subscriptions, emergencyMode, localDb, refreshPc, flushIdx, syncedItems, observe, diedWith>>

AddCustomItem(quantity, outcome) ==
    \/ AddCustomOffline(quantity)
    \/ AddCustomOnline(quantity, outcome)
    \/ AddCustomFallback(quantity, outcome)

\* ------------------------------------------------------------------ real-time feed

\* A server record as it enters the collection: { ...payload, timestamp, index }.
FromRow(r, index) ==
    Item(r.id, r.itemId, r.quantity, r.completed, r.createdAt, r.updatedAt, index)

\* CreatedItems with unshift in place of push: the new record goes to the front.
CreatedItemsFront(items, newItem) ==
    IF newItem.id \in Ids(items) THEN items ELSE <<FromRow(newItem, 1)>> \o items

\* CreatedItems without the exists check of lines 464-465.
CreatedItemsNoCheck(items, newItem) == Append(items, FromRow(newItem, Len(items) + 1))

\* Lines 462-476.
CreatedItems(items, newItem) ==
    IF \E i \in 1..Len(items) : items[i].id = newItem.id
    THEN items
    ELSE Append(items, FromRow(newItem, Len(items) + 1))

\* UpdatedItems that moves the replaced record to the end of the collection.
UpdatedItemsAppend(items, updatedItem) ==
    IF FindIndexById(items, updatedItem.id) > 0
    THEN Append(FilterOutId(items, updatedItem.id),
                FromRow(updatedItem, items[FindIndexById(items, updatedItem.id)].index))
    ELSE items

\* Lines 479-490.
UpdatedItems(items, updatedItem) ==
    IF FindIndexById(items, updatedItem.id) > 0
    THEN [items EXCEPT ![FindIndexById(items, updatedItem.id)] =
              FromRow(updatedItem, items[FindIndexById(items, updatedItem.id)].index)]
    ELSE items

\* Lines 493-505.
DeletedItems(items, id) ==
    IF Len(FilterOutId(items, id)) < Len(items) THEN Reindex(FilterOutId(items, id)) ELSE items

\* Lines 465 and 475: notifyListeners() is reached when the record was pushed.
CreatedNotifies(items, newItem) == IF newItem.id \in Ids(items) THEN 0 ELSE 1

\* UpdatedNotifies without the call of line 488.
UpdatedNotifiesNever(items, updatedItem) == 0

\* Lines 481 and 488: notifyListeners() is reached when the record was found.
UpdatedNotifies(items, updatedItem) == IF updatedItem.id \in Ids(items) THEN 1 ELSE 0

\* DeletedNotifies with the call of line 503 moved out of the if.
DeletedNotifiesAlways(items, id) == 1

\* Lines 497 and 503: notifyListeners() is reached when a record was filtered out.
DeletedNotifies(items, id) == IF id \in Ids(items) THEN 1 ELSE 0

\* Ids a 'deleted' event can carry: server ids the remote does not hold.
DeletedIds == {<<"srv", n>> : n \in 1..(MaxIds + 1)} \ IdsOf(remote)

HandleReorderItemCreated(newItem) ==
    /\ subscriptions > 0
    /\ reorderItems' = CreatedItems(reorderItems, newItem)
    /\ NotifyListeners(CreatedNotifies(reorderItems, newItem),
                       CreatedItems(reorderItems, newItem), ~isInitialized)
    /\ UNCHANGED cacheVars
    /\ Unlogged
    /\ UNCHANGED appVars
    /\ last' = Obs("created", IF newItem.id \in Ids(reorderItems) THEN "ignored" ELSE "feed",
                   newItem.id)
    /\ UNCHANGED <<pendingSyncItems, isOfflineMode, isInitialized, currentUserId, subscriptions,
                   emergencyMode, storage, localDb, remote, clock, refreshPc, flushArr,
                   flushSame, flushIdx, syncedItems, observe, diedWith>>

HandleReorderItemUpdated(updatedItem) ==
    /\ subscriptions > 0
    /\ reorderItems' = UpdatedItems(reorderItems, updatedItem)
    /\ pendingSyncItems' = Unlink(pendingSyncItems, {updatedItem.id} \cap Ids(reorderItems))
    /\ flushArr' = Unlink(flushArr, {updatedItem.id} \cap Ids(reorderItems))
    /\ NotifyListeners(UpdatedNotifies(reorderItems, updatedItem),
                       UpdatedItems(reorderItems, updatedItem), ~isInitialized)
    /\ UNCHANGED cacheVars
    /\ Unlogged
    /\ UNCHANGED appVars
    /\ last' = Obs("updated", IF updatedItem.id \in Ids(reorderItems) THEN "feed" ELSE "ignored",
                   updatedItem.id)
    /\ UNCHANGED <<isOfflineMode, isInitialized, currentUserId, subscriptions, emergencyMode,
                   storage, localDb, remote, clock, refreshPc, flushSame, flushIdx,
                   syncedItems, observe, diedWith>>

HandleReorderItemDeleted(id) ==
    /\ subscriptions > 0
    /\ reorderItems' = DeletedItems(reorderItems, id)
    /\ pendingSyncItems' = Relink(pendingSyncItems, DeletedItems(reorderItems, id))
    /\ flushArr' = Relink(flushArr, DeletedItems(reorderItems, id))
    /\ NotifyListeners(DeletedNotifies(reorderItems, id),
                       DeletedItems(reorderItems, id), ~isInitialized)
    /\ UNCHANGED cacheVars
    /\ Unlogged
    /\ UNCHANGED appVars
    /\ last' = Obs("deleted", IF id \in Ids(reorderItems) THEN "feed" ELSE "ignored", id)
    /\ UNCHANGED <<isOfflineMode, isInitialized, currentUserId, subscriptions, emergencyMode,
                   storage, localDb, remote, clock, refreshPc, flushSame, flushIdx,
                   syncedItems, observe, diedWith>>


\* ------------------------------------------------------------------ listener bus

\* Lines 635-652 up to the return: the callback is pushed; the first one pushed
\* before initialization starts initialize and waits for it, any other is called
\* at once with [...this.reorderItems].
AddListener ==
    /\ Len(listeners) + orphans < MaxListeners
    /\ LET first == Len(listeners) = 0 /\ ~isInitialized
       IN /\ listeners' = Append(listeners, Listener(first))
          /\ orphans' = orphans
          /\ handed' = IF first THEN handed ELSE reorderItems
          /\ handedLive' = IF first THEN handedLive ELSE TRUE
          /\ Unlogged
          /\ UNCHANGED appVars
          /\ last' = Obs("addListener", IF first THEN "deferred" ELSE "immediate", NoId)
    /\ notified' = 0
    /\ UNCHANGED <<engineVars, cacheVars>>

\* Lines 649-651: the function addListener returned is called.
RemoveListener(i) ==
    /\ i \in 1..Len(listeners)
    /\ listeners' = [k \in 1..(Len(listeners) - 1) |->
                        IF k < i THEN listeners[k] ELSE listeners[k + 1]]
    /\ orphans' = IF listeners[i].waiting THEN orphans + 1 ELSE orphans
    /\ notified' = 0
    /\ Unlogged
    /\ UNCHANGED appVars
    /\ last' = Obs("removeListener", "none", NoId)
    /\ UNCHANGED <<engineVars, cacheVars, handed, handedLive>>

\* Lines 846-848: return [...this.reorderItems].
GetItems ==
    /\ handed' = reorderItems
    /\ handedLive' = TRUE
    /\ notified' = 0
    /\ Unlogged
    /\ UNCHANGED appVars
    /\ last' = Obs("getItems", "none", NoId)
    /\ UNCHANGED <<engineVars, cacheVars, listeners, orphans>>

\* The array s with its elements in reverse order.
Reversed(s) == [i \in 1..Len(s) |-> s[Len(s) + 1 - i]]

\* The holder of the array handed out truncates or reorders it: the array is a
\* copy, this.reorderItems is another array.
ListenerReorders ==
    /\ Len(handed) > 0
    /\ \E h \in {Tail(handed), Reversed(handed)} \ {handed} : handed' = h
    /\ notified' = 0
    /\ Unlogged
    /\ UNCHANGED appVars
    /\ last' = Obs("listener", "array", NoId)
    /\ UNCHANGED <<engineVars, cacheVars, listeners, orphans, handedLive>>

\* The holder of the array handed out assigns the quantity of its i-th element:
\* the element is the object that this.reorderItems holds, and any queue entry
\* that is this object shows the assignment too.
ListenerWrites(i, quantity) ==
    /\ handedLive
    /\ i \in 1..Len(handed)
    /\ quantity # handed[i].quantity
    /\ FindIndexById(reorderItems, handed[i].id) > 0
    /\ LET j == FindIndexById(reorderItems, handed[i].id)
           newItems == [reorderItems EXCEPT ![j] = [reorderItems[j] EXCEPT !.quantity = quantity]]
       IN /\ handed' = [handed EXCEPT ![i] = [handed[i] EXCEPT !.quantity = quantity]]
          /\ reorderItems' = newItems
          /\ pendingSyncItems' = MutateLive(pendingSyncItems, newItems[j])
          /\ flushArr' = MutateLive(flushArr, newItems[j])
          /\ Unlogged
          /\ UNCHANGED appVars
          /\ last' = Obs("listener", "field", handed[i].id)
    /\ notified' = 0
    /\ UNCHANGED <<isOfflineMode, isInitialized, currentUserId, subscriptions, emergencyMode,
                   storage, localDb, remote, clock, refreshPc, flushSame, flushIdx,
                   syncedItems, observe, diedWith, listeners, orphans, handedLive, cacheVars>>

\* ------------------------------------------------------------------ team data

\* What fetchTeamData returns and how many SQLite lookups and remote calls it made.
Fetched(id, result, lookups, calls) ==
    [id |-> id, result |-> result, lookups |-> lookups, calls |-> calls]

\* Lines 543-546: the entry is younger than CACHE_DURATION; its data is returned.
FetchCached(itemId) ==
    /\ CacheHit(teamDataCache[itemId], wall)
    /\ fetched' = Fetched(itemId, teamDataCache[itemId].data, 0, 0)
    /\ UNCHANGED <<teamDataCache, teamDb>>

\* Lines 552-569 and 575-578: modernDb.getTeamData answers with the row, which is
\* cached and returned, or throws, and undefined is returned.
FetchLocal(itemId, dbOk) ==
    /\ ~CacheHit(teamDataCache[itemId], wall)
    /\ ~dbOk \/ teamDb[itemId] # NoRow
    /\ teamDataCache' = IF dbOk
                        THEN [teamDataCache EXCEPT ![itemId] = CacheEntry(teamDb[itemId], wall)]
                        ELSE teamDataCache
    /\ fetched' = Fetched(itemId, IF dbOk THEN teamDb[itemId] ELSE "undefined", 1, 0)
    /\ UNCHANGED teamDb

\* Lines 570-574 with recoverTeamDataFromDynamoDB (582-632): no row; getItemData is
\* called once, and its data, when there is some, is stored, cached and returned.
FetchRecover(itemId, outcome, payload) ==
    /\ ~CacheHit(teamDataCache[itemId], wall)
    /\ teamDb[itemId] = NoRow
    /\ outcome \in {"ok", "fail", "nodata"}
    /\ teamDb' = IF outcome = "ok" THEN [teamDb EXCEPT ![itemId] = payload] ELSE teamDb
    /\ teamDataCache' = IF outcome = "ok"
                        THEN [teamDataCache EXCEPT ![itemId] = CacheEntry(payload, wall)]
                        ELSE teamDataCache
    /\ fetched' = Fetched(itemId, IF outcome = "ok" THEN payload ELSE "undefined", 1, 1)

\* Lines 541-579.
FetchTeamData(itemId, dbOk, outcome, payload) ==
    /\ \/ FetchCached(itemId)
       \/ FetchLocal(itemId, dbOk)
       \/ FetchRecover(itemId, outcome, payload)
    /\ Unlogged
    /\ UNCHANGED appVars
    /\ last' = Obs("fetchTeamData", "none", itemId)
    /\ notified' = 0
    /\ UNCHANGED <<engineVars, listeners, orphans, handed, handedLive, wall>>

\* Lines 508-538: the entry is set and the records of this catalog item get the
\* data; listeners are notified only when there is such a record.
HandleTeamDataUpdate(itemId, payload) ==
    /\ subscriptions > 0
    /\ teamDataCache' = [teamDataCache EXCEPT ![itemId] = CacheEntry(payload, wall)]
    /\ NotifyListeners(IF itemId \in ItemIds(reorderItems) THEN 1 ELSE 0, reorderItems,
                       ~isInitialized)
    /\ Unlogged
    /\ UNCHANGED appVars
    /\ last' = Obs("teamData", IF itemId \in ItemIds(reorderItems) THEN "feed" ELSE "ignored",
                   itemId)
    /\ UNCHANGED <<engineVars, teamDb, wall, fetched>>

\* A minute passes.
Tick ==
    /\ wall < MaxWall
    /\ wall' = wall + 1
    /\ UNCHANGED <<engineVars, busVars, teamDataCache, teamDb, fetched, last, history,
                   appVars>>

\* ------------------------------------------------------------------ HTTP client

\* Values of the retry option of a request (RequestConfig.retry): left out or true,
\* false, or a RetryConfig with this count and no statusCodes.
RetryOptions ==
    {[kind |-> "default", count |-> 0], [kind |-> "off", count |-> 0]}
        \cup {[kind |-> "object", count |-> c] : c \in 0..MaxRetryCount}

\* What the server can answer to one attempt; 0 stands for no response at all
\* (network error or timeout: error.response is undefined).
HttpStatuses == {0, 200, 401, 404, 500, 503}

\* No request in flight.
NoRequest ==
    [pc |-> "idle", retry |-> [kind |-> "default", count |-> 0], bypass |-> FALSE,
     retryCount |-> 0, authRetry |-> FALSE, attempts |-> 0, answered |-> FALSE,
     result |-> "none"]

\* apiClient(config): a request enters the request interceptor with _retryCount and
\* _authRetry unset.  attempts counts the times it is put on the wire, answered
\* tells that some attempt got a response.
NewRequest(retry, bypass) ==
    [pc |-> "request", retry |-> retry, bypass |-> bypass, retryCount |-> 0,
     authRetry |-> FALSE, attempts |-> 0, answered |-> FALSE, result |-> "none"]

\* Lines 457 and 572: originalRequest.retry !== false
ShouldRetry(retry) == retry.kind # "off"

\* Lines 458-460: the count of the request's RetryConfig, 2 without one.
NetworkRetryCount(retry) == IF retry.kind = "object" THEN retry.count ELSE 2

\* Lines 573-575: the count of the request's RetryConfig, 1 without one.
ServerRetryCount(retry) == IF retry.kind = "object" THEN retry.count ELSE 1

\* Lines 578-579: a RetryConfig without statusCodes retries every status, the
\* default one 502, 503 and 504.
ShouldRetryStatus(retry, status) == retry.kind = "object" \/ status \in {502, 503, 504}

\* The request ends with this result.
Settled(h, result) == [h EXCEPT !.pc = "done", !.result = result]

\* Lines 471-479 and 589-597: _retryCount is incremented and the request is given
\* to apiClient again, so it passes the request interceptor once more.
Retried(h) == [h EXCEPT !.pc = "request", !.retryCount = h.retryCount + 1]

\* Lines 449-491: the attempt got no response.
NetworkError(h) ==
    IF ShouldRetry(h.retry) /\ h.retryCount < NetworkRetryCount(h.retry)
    THEN Retried(h)
    ELSE Settled(h, "NETWORK_ERROR")

\* Lines 506-567: the first 401 of the request.  refreshed tells that a refresh
\* token was stored and refreshToken() returned an access token: the request is
\* then sent with axios itself (line 531), outside the interceptors.
Unauthorized(h, refreshed) ==
    IF refreshed
    THEN [h EXCEPT !.authRetry = TRUE, !.pc = "authsent", !.attempts = h.attempts + 1]
    ELSE Settled([h EXCEPT !.authRetry = TRUE], "AUTH_ERROR")

\* Lines 570-612: any other status; a 5xx is retried under the three conditions of
\* line 583, everything else is rejected as an ApiError built from the response.
ResponseError(h, status) ==
    IF /\ status >= 500
       /\ ShouldRetry(h.retry)
       /\ ShouldRetryStatus(h.retry, status)
       /\ h.retryCount < ServerRetryCount(h.retry)
    THEN Retried(h)
    ELSE Settled(h, "HTTP_ERROR")

\* Lines 422-613: the error handler of the response interceptor for an attempt
\* that was sent and failed with this status.
HandleError(h, status, refreshed) ==
    IF status = 0 THEN NetworkError(h)
    ELSE IF status = 401 /\ ~h.authRetry THEN Unauthorized(h, refreshed)
    ELSE ResponseError(h, status)

\* Lines 422-457 for an error thrown by the request interceptor (the ApiError of
\* line 345): it carries no config and no response, so the handler takes the
\* network branch and reads originalRequest.retry on undefined.
HandleOffline(h) == Settled(h, "TypeError")

\* The caller hands a request to apiClient.
ApiRequest(retry, bypass) ==
    /\ http.pc \in {"idle", "done"}
    /\ http' = NewRequest(retry, bypass)
    /\ Quiet
    /\ Unlogged
    /\ last' = Obs("request", "none", NoId)
    /\ UNCHANGED <<engineVars, cacheVars, scanHistory>>

\* Lines 333-394: the request interceptor.  connected is what
\* checkNetworkConnectivity reports, cached tells that the request is a cacheable
\* GET with a live cache entry (the marker thrown at line 366 makes the error
\* handler resolve with the cached response, lines 424-427).
RequestInterceptor(connected, cached) ==
    /\ http.pc = "request"
    /\ http' = IF ~http.bypass /\ ~connected THEN HandleOffline(http)
               ELSE IF cached THEN Settled(http, "cached")
               ELSE [http EXCEPT !.pc = "sent", !.attempts = http.attempts + 1]
    /\ Quiet
    /\ Unlogged
    /\ last' = Obs("interceptor", "none", NoId)
    /\ UNCHANGED <<engineVars, cacheVars, scanHistory>>

\* The attempt on the wire ends: lines 401-421 for a 2xx, the error handler else.
Respond(status, refreshed) ==
    /\ http.pc = "sent"
    /\ http' = IF status = 200
               THEN Settled([http EXCEPT !.answered = TRUE], "response")
               ELSE HandleError([http EXCEPT !.answered = http.answered \/ status # 0],
                                status, refreshed)
    /\ Quiet
    /\ Unlogged
    /\ last' = Obs("respond", "none", NoId)
    /\ UNCHANGED <<engineVars, cacheVars, scanHistory>>

\* The re-send of line 531 ends: axios(originalRequest) has no interceptors, its
\* response or its error goes to the caller as it is.
AuthRespond(status) ==
    /\ http.pc = "authsent"
    /\ http' = Settled([http EXCEPT !.answered = http.answered \/ status # 0],
                       IF status = 200 THEN "response" ELSE "AxiosError")
    /\ Quiet
    /\ Unlogged
    /\ last' = Obs("respond", "auth", NoId)
    /\ UNCHANGED <<engineVars, cacheVars, scanHistory>>

\* ------------------------------------------------------------------ scan history

\* The scans the user can make: an id and the content recorded with it.
ScanItems == [id : 1..MaxScanIds, content : {"a", "b"}]

\* Line 153: state.scanHistory.findIndex(histItem => histItem.id === item.id),
\* counted from 1, 0 when there is none.
FindScanIndex(hist, id) ==
    IF \E i \in 1..Len(hist) : hist[i].id = id
    THEN CHOOSE i \in 1..Len(hist) :
             hist[i].id = id /\ \A j \in 1..(i - 1) : hist[j].id # id
    ELSE 0

\* Line 157: newHistory.splice(existingIndex, 1)
SpliceOut(hist, k) ==
    [i \in 1..(Len(hist) - 1) |-> IF i < k THEN hist[i] ELSE hist[i + 1]]

\* ScanHistoryAfter without the removal of the old entry of the id.
ScanHistoryAfterKeepOld(hist, item) ==
    SubSeq(<<item>> \o hist, 1,
           IF Len(hist) + 1 < SCAN_HISTORY_LIMIT THEN Len(hist) + 1 ELSE SCAN_HISTORY_LIMIT)

\* Lines 152-161: the old entry of the id is removed, the item goes to the front
\* and the list is cut to its first SCAN_HISTORY_LIMIT entries.
ScanHistoryAfter(hist, item) ==
    LET newHistory == IF FindScanIndex(hist, item.id) > 0
                      THEN SpliceOut(hist, FindScanIndex(hist, item.id))
                      ELSE hist
        full == <<item>> \o newHistory
    IN SubSeq(full, 1, IF Len(full) < SCAN_HISTORY_LIMIT THEN Len(full)
                       ELSE SCAN_HISTORY_LIMIT)

\* Lines 150-163.
AddScanHistoryItem(item) ==
    /\ scanHistory' = ScanHistoryAfter(scanHistory, item)
    /\ Quiet
    /\ Unlogged
    /\ last' = Obs("addScanHistoryItem",
                   IF FindScanIndex(scanHistory, item.id) > 0 THEN "moved" ELSE "added", NoId)
    /\ UNCHANGED <<engineVars, cacheVars, http>>

\* Line 164.
ClearScanHistory ==
    /\ scanHistory' = << >>
    /\ Quiet
    /\ Unlogged
    /\ last' = Obs("clearScanHistory", "none", NoId)
    /\ UNCHANGED <<engineVars, cacheVars, http>>
\* ------------------------------------------------------------------ loading

RECURSIVE SeqsOf(_)
\* The orders in which the records of a set can be listed.
SeqsOf(S) ==
    IF S = {} THEN {<< >>}
    ELSE UNION {{<<x>> \o s : s \in SeqsOf(S \ {x})} : x \in S}

\* SELECT * FROM reorder_items WHERE pending_sync = 0 ORDER BY created_at DESC
LocalOrders(db) ==
    {s \in SeqsOf(db) : \A i, j \in 1..Len(s) : i < j => s[i].createdAt >= s[j].createdAt}

\* Lines 1282-1297: every row is mapped with index: 0.
LoadLocalReorderItems(rows) == [i \in 1..Len(rows) |-> FromRow(rows[i], 0)]

\* Lines 1356-1360: the listed records, indexed from 1.
ServerItems(listed) == [i \in 1..Len(listed) |-> FromRow(listed[i], i)]

\* INSERT OR REPLACE of every item, in one transaction.
SaveReorderItemsLocally(db, items) ==
    {r \in db : r.id \notin Ids(items)} \cup {Row(items[i]) : i \in 1..Len(items)}

\* Lines 286-309 with recoverFromDynamoDB (1341-1382): the collection after
\* loadReorderItems.  rows is what the SQLite query returned, listOk tells whether
\* listReorderItems answered, listed is its answer.
LoadReorderItems(items, rows, listOk, listed) ==
    IF Len(rows) > 0 THEN LoadLocalReorderItems(rows)
    ELSE IF listOk THEN ServerItems(listed)
    ELSE items

\* The SQLite table after loadReorderItems.
LoadReorderDb(db, rows, listOk, listed) ==
    IF Len(rows) = 0 /\ listOk
    THEN SaveReorderItemsLocally(db, ServerItems(listed))
    ELSE db

\* Line 1374: recoverFromDynamoDB notifies the listeners when the list came back.
RecoveryNotifies(rows, listOk) == IF Len(rows) = 0 /\ listOk THEN 1 ELSE 0

\* InitializeNotifies without the call of line 275.
InitializeNotifiesRecovery(rows, listOk) == RecoveryNotifies(rows, listOk)

\* Lines 259 and 275: the broadcast of recovery, if any, and the one that ends
\* initialize.
InitializeNotifies(rows, listOk) == RecoveryNotifies(rows, listOk) + 1

\* The collection was replaced by loadReorderItems.
LoadReplaces(rows, listOk) == Len(rows) > 0 \/ listOk

\* Lines 1236-1251: the parsed snapshot re-indexed from 1; the collection is kept
\* when nothing is stored.
LoadOfflineItems(items, stored) ==
    IF stored.present
    THEN [i \in 1..Len(stored.items) |-> [stored.items[i] EXCEPT !.index = i]]
    ELSE items

\* loadReorderItems as a step of initialize or refresh.
LoadOnline(rows, listOk, listed) ==
    /\ reorderItems' = LoadReorderItems(reorderItems, rows, listOk, listed)
    /\ localDb' = LoadReorderDb(localDb, rows, listOk, listed)
    /\ pendingSyncItems' = IF LoadReplaces(rows, listOk)
                           THEN Unlink(pendingSyncItems, Ids(pendingSyncItems))
                           ELSE pendingSyncItems

\* loadOfflineItems as a step of initialize or refresh.
LoadOffline ==
    /\ reorderItems' = LoadOfflineItems(reorderItems, storage)
    /\ pendingSyncItems' = IF storage.present
                           THEN Unlink(pendingSyncItems, Ids(pendingSyncItems))
                           ELSE pendingSyncItems

\* ------------------------------------------------------------------ initialize

\* Line 249: this.currentUserId === userId, where currentUserId is userId || null.
SameUser(current, userId) == current = userId

\* Line 249: already initialized for this user.
InitializeNoop(userId) ==
    /\ isInitialized
    /\ SameUser(currentUserId, userId)
    /\ Quiet
    /\ UNCHANGED cacheVars
    /\ Unlogged
    /\ UNCHANGED appVars
    /\ last' = Obs("initialize", "noop", NoId)
    /\ UNCHANGED <<reorderItems, pendingSyncItems, isOfflineMode, isInitialized, currentUserId,
                   subscriptions, emergencyMode, storage, localDb, remote, clock, refreshPc, flushArr, flushSame, flushIdx, syncedItems, observe, diedWith>>

\* Lines 257-262: the probe succeeded.
InitializeOnline(userId, rows, listOk, listed) ==
    /\ ~(isInitialized /\ SameUser(currentUserId, userId))
    /\ emergencyMode \/ subscriptions < MaxSubSets
    /\ currentUserId' = IF userId = "undefined" THEN Null ELSE userId
    /\ isOfflineMode' = FALSE
    /\ LoadOnline(rows, listOk, listed)
    /\ flushArr' = IF LoadReplaces(rows, listOk) THEN Unlink(flushArr, Ids(flushArr))
                   ELSE flushArr
    /\ subscriptions' = IF emergencyMode THEN subscriptions ELSE subscriptions + 1
    /\ isInitialized' = TRUE
    /\ InitializeNotify(InitializeNotifies(rows, listOk),
                        LoadReorderItems(reorderItems, rows, listOk, listed),
                        ~isInitialized /\ RecoveryNotifies(rows, listOk) > 0)
    /\ UNCHANGED cacheVars
    /\ Unlogged
    /\ UNCHANGED appVars
    /\ last' = Obs("initialize", "online", NoId)
    /\ UNCHANGED <<emergencyMode, storage, remote, clock, refreshPc, flushSame,
                   flushIdx, syncedItems, observe, diedWith>>

\* Lines 263-266: the probe failed.
InitializeOffline(userId) ==
    /\ ~(isInitialized /\ SameUser(currentUserId, userId))
    /\ currentUserId' = IF userId = "undefined" THEN Null ELSE userId
    /\ isOfflineMode' = TRUE
    /\ LoadOffline
    /\ flushArr' = IF storage.present THEN Unlink(flushArr, Ids(flushArr))
                   ELSE flushArr
    /\ isInitialized' = TRUE
    /\ InitializeNotify(1, LoadOfflineItems(reorderItems, storage), FALSE)
    /\ UNCHANGED cacheVars
    /\ Unlogged
    /\ UNCHANGED appVars
    /\ last' = Obs("initialize", "offline", NoId)
    /\ UNCHANGED <<subscriptions, emergencyMode, storage, localDb, remote, clock, refreshPc, flushSame, flushIdx, syncedItems, observe, diedWith>>

\* Lines 660-668.
Cleanup ==
    /\ subscriptions > 0
    /\ subscriptions' = 0
    /\ Quiet
    /\ UNCHANGED cacheVars
    /\ Unlogged
    /\ UNCHANGED appVars
    /\ last' = Obs("cleanup", "none", NoId)
    /\ UNCHANGED <<reorderItems, pendingSyncItems, isOfflineMode, isInitialized, currentUserId,
                   emergencyMode, storage, localDb, remote, clock, refreshPc, flushArr,
                   flushSame, flushIdx, syncedItems, observe, diedWith>>

\* ------------------------------------------------------------------ refresh

\* Lines 1045-1054 with nothing waiting: syncPendingItems returns at line 1068 and
\* loadReorderItems and the broadcast follow.
RefreshOnline(rows, listOk, listed) ==
    /\ refreshPc = "idle"
    /\ Len(pendingSyncItems) = 0
    /\ isOfflineMode' = FALSE
    /\ LoadOnline(rows, listOk, listed)
    /\ NotifyListeners(1 + RecoveryNotifies(rows, listOk),
                       LoadReorderItems(reorderItems, rows, listOk, listed), ~isInitialized)
    /\ UNCHANGED cacheVars
    /\ Unlogged
    /\ UNCHANGED appVars
    /\ last' = Obs("refresh", "online", NoId)
    /\ UNCHANGED <<isInitialized, currentUserId, subscriptions, emergencyMode, storage, remote,
                   clock, refreshPc, flushArr, flushSame, flushIdx, syncedItems,
                   observe, diedWith>>

\* Lines 1045-1074 with entries waiting: the probe succeeded and the for-of loop
\* of syncPendingItems starts on this.pendingSyncItems.
RefreshSyncStart ==
    /\ refreshPc = "idle"
    /\ Len(pendingSyncItems) > 0
    /\ isOfflineMode' = FALSE
    /\ refreshPc' = "sync"
    /\ flushArr' = pendingSyncItems
    /\ flushSame' = TRUE
    /\ flushIdx' = 0
    /\ syncedItems' = << >>
    /\ Quiet
    /\ UNCHANGED cacheVars
    /\ Unlogged
    /\ UNCHANGED appVars
    /\ last' = Obs("refresh", "probe", NoId)
    /\ UNCHANGED <<reorderItems, pendingSyncItems, isInitialized, currentUserId, subscriptions,
                   emergencyMode, storage, localDb, remote, clock, observe, diedWith>>

\* Lines 1055-1059: the probe failed.
RefreshOffline ==
    /\ refreshPc = "idle"
    /\ isOfflineMode' = TRUE
    /\ LoadOffline
    /\ NotifyListeners(1, LoadOfflineItems(reorderItems, storage), ~isInitialized)
    /\ UNCHANGED cacheVars
    /\ Unlogged
    /\ UNCHANGED appVars
    /\ last' = Obs("refresh", "offline", NoId)
    /\ UNCHANGED <<isInitialized, currentUserId, subscriptions, emergencyMode, storage,
                   localDb, remote, clock, refreshPc, flushArr, flushSame, flushIdx,
                   syncedItems, observe, diedWith>>

\* Lines 1076-1090: the entry is re-submitted as a creation.
SyncCreate(rem, entry, id, now) ==
    RemoteCreate(rem, id, entry.itemId, entry.quantity, entry.completed, now)

\* SyncedAfter with the push outside the if: every attempted entry counts as synced.
SyncedAfterAlways(synced, entry, outcome) == Append(synced, entry.id)

\* Lines 1092-1098: only a response that carries the record marks the entry synced.
SyncedAfter(synced, entry, outcome) ==
    IF outcome = "ok" THEN Append(synced, entry.id) ELSE synced

\* NextFlushIdx that passes over the entry that follows a confirmed one.
NextFlushIdxSkip(idx, outcome) == IF outcome = "ok" THEN idx + 2 ELSE idx + 1

\* NextFlushIdx that stays on an entry whose call threw, to try it again.
NextFlushIdxRetry(idx, outcome) == IF Throws(outcome) THEN idx ELSE idx + 1

\* Lines 1074-1098: the catch is inside the loop body, so the for-of moves to the
\* next entry whatever the call did.
NextFlushIdx(idx, outcome) == idx + 1

\* One turn of the for-of loop of syncPendingItems (lines 1074-1099).
SyncPendingStep(outcome) ==
    /\ refreshPc = "sync"
    /\ flushIdx < Len(flushArr)
    /\ Applied(outcome) => (CanMint(1) /\ CanStamp(1))
    /\ remote' = IF Applied(outcome)
                 THEN SyncCreate(remote, flushArr[flushIdx + 1], Mint("srv"), Stamp(1))
                 ELSE remote
    /\ clock' = IF Applied(outcome) THEN clock + 1 ELSE clock
    /\ syncedItems' = SyncedAfter(syncedItems, flushArr[flushIdx + 1], outcome)
    /\ flushIdx' = NextFlushIdx(flushIdx, outcome)
    /\ Quiet
    /\ UNCHANGED cacheVars
    /\ Unlogged
    /\ UNCHANGED appVars
    /\ last' = Obs("sync", outcome, flushArr[flushIdx + 1].id)
    /\ UNCHANGED <<reorderItems, pendingSyncItems, isOfflineMode, isInitialized, currentUserId,
                   subscriptions, emergencyMode, storage, localDb, refreshPc, flushArr,
                   flushSame, observe, diedWith>>

\* RemoveSynced that empties the queue whatever was confirmed.
RemoveSyncedAll(pend, synced) == << >>

\* Line 1102: this.pendingSyncItems.filter(item => !syncedItems.includes(item.id))
RemoveSynced(pend, synced) ==
    SelectSeq(pend, LAMBDA e : \A k \in 1..Len(synced) : synced[k] # e.id)

\* The loop of syncPendingItems is over: line 1102, then loadReorderItems and the
\* broadcast that ends refresh (lines 1052-1054).
RefreshFinish(rows, listOk, listed) ==
    /\ refreshPc = "sync"
    /\ flushIdx >= Len(flushArr)
    /\ reorderItems' = LoadReorderItems(reorderItems, rows, listOk, listed)
    /\ localDb' = LoadReorderDb(localDb, rows, listOk, listed)
    /\ pendingSyncItems' =
           IF LoadReplaces(rows, listOk)
           THEN Unlink(RemoveSynced(pendingSyncItems, syncedItems), Ids(pendingSyncItems))
           ELSE RemoveSynced(pendingSyncItems, syncedItems)
    /\ refreshPc' = "idle"
    /\ flushArr' = << >>
    /\ flushSame' = FALSE
    /\ flushIdx' = 0
    /\ syncedItems' = << >>
    /\ NotifyListeners(1 + RecoveryNotifies(rows, listOk),
                       LoadReorderItems(reorderItems, rows, listOk, listed), ~isInitialized)
    /\ UNCHANGED cacheVars
    /\ Unlogged
    /\ UNCHANGED appVars
    /\ last' = Obs("refresh", "synced", NoId)
    /\ UNCHANGED <<isOfflineMode, isInitialized, currentUserId, subscriptions, emergencyMode,
                   storage, remote, clock, observe, diedWith>>

\* ------------------------------------------------------------------ process death

\* The process dies and a new one is constructed (lines 235-245): memory is reset,
\* AsyncStorage, SQLite and the remote keep their content.  diedWith remembers the
\* ids that were waiting in the queue and had no confirmation yet.
Restart ==
    /\ reorderItems' = << >>
    /\ pendingSyncItems' = << >>
    /\ isOfflineMode' = FALSE
    /\ isInitialized' = FALSE
    /\ currentUserId' = Null
    /\ subscriptions' = 0
    /\ refreshPc' = "idle"
    /\ flushArr' = << >>
    /\ flushSame' = FALSE
    /\ flushIdx' = 0
    /\ syncedItems' = << >>
    /\ diedWith' = IF observe
                   THEN Ids(pendingSyncItems) \ {syncedItems[k] : k \in 1..Len(syncedItems)}
                   ELSE {}
    /\ listeners' = << >>
    /\ orphans' = 0
    /\ handed' = << >>
    /\ handedLive' = FALSE
    /\ notified' = 0
    /\ teamDataCache' = [i \in Items |-> NoEntry]
    /\ UNCHANGED <<teamDb, wall, fetched>>
    /\ Unlogged
    /\ UNCHANGED appVars
    /\ last' = Obs("restart", "none", NoId)
    /\ UNCHANGED <<emergencyMode, storage, localDb, remote, clock, observe>>

\* ------------------------------------------------------------------ specification

\* A record of the second catalog item that another device created.
SeedRecord ==
    [id |-> <<"srv", 1>>, itemId |-> <<"cat", 2>>, quantity |-> 1, completed |-> FALSE,
     createdAt |-> 0, updatedAt |-> 0]

\* The state after construction (lines 235-245) on a device with empty stores,
\* whatever the build's EXPO_PUBLIC_EMERGENCY_MODE.
Constructed ==
    /\ reorderItems = << >>
    /\ pendingSyncItems = << >>
    /\ isOfflineMode = FALSE
    /\ isInitialized = FALSE
    /\ currentUserId = Null
    /\ subscriptions = 0
    /\ storage = [present |-> FALSE, items |-> << >>]
    /\ localDb = {}
    /\ clock = 0
    /\ refreshPc = "idle"
    /\ flushArr = << >>
    /\ flushSame = FALSE
    /\ flushIdx = 0
    /\ syncedItems = << >>
    /\ diedWith = {}
    /\ last = NoObs
    /\ notified = 0
    /\ listeners = << >>
    /\ orphans = 0
    /\ handed = << >>
    /\ handedLive = FALSE
    /\ teamDataCache = [i \in Items |-> NoEntry]
    /\ teamDb = [i \in Items |-> NoRow]
    /\ wall = 0
    /\ fetched = NoFetch
    /\ history = NoHistory
    /\ http = NoRequest
    /\ scanHistory = << >>

\* The build runs with the real-time feed.
Fresh == Constructed /\ emergencyMode = FALSE

Init == Fresh /\ remote = {} /\ observe = TRUE

InitSeeded == Fresh /\ remote = {SeedRecord} /\ observe = FALSE

InitBus == Fresh /\ remote = {} /\ observe = TRUE

\* The build runs in emergency mode: setupSubscriptions returns at line 374.
InitEmergency == Constructed /\ emergencyMode = TRUE /\ remote = {} /\ observe = TRUE

\* Rows the SQLite query can return: the table in created_at order.
RowsRead == LocalOrders(localDb)

\* Record ids a caller can pass to removeItem and toggleCompletion.
KnownIds == Ids(reorderItems) \cup IdsOf(remote) \cup {<<"srv", MaxIds + 1>>}

Next ==
    \/ \E u \in Users : InitializeNoop(u)
    \/ \E u \in Users, rows \in RowsRead, listOk \in BOOLEAN, listed \in SeqsOf(remote) :
          InitializeOnline(u, rows, listOk, listed)
    \/ \E u \in Users : InitializeOffline(u)
    \/ Cleanup
    \/ \E i \in Items, q \in Quantities, ow \in BOOLEAN, o \in Outcomes : AddItem(i, q, ow, o)
    \/ \E q \in Quantities, o \in Outcomes : AddCustomItem(q, o)
    \/ \E id \in KnownIds, o \in Outcomes : RemoveItem(id, o)
    \/ \E id \in KnownIds, o \in Outcomes, logOk \in BOOLEAN : ToggleCompletion(id, o, logOk)
    \/ \E r \in remote : HandleReorderItemCreated(r)
    \/ \E r \in remote : HandleReorderItemUpdated(r)
    \/ \E id \in DeletedIds : HandleReorderItemDeleted(id)
    \/ \E rows \in RowsRead, listOk \in BOOLEAN, listed \in SeqsOf(remote) :
          RefreshOnline(rows, listOk, listed)
    \/ RefreshSyncStart
    \/ RefreshOffline
    \/ \E o \in Outcomes : SyncPendingStep(o)
    \/ \E rows \in RowsRead, listOk \in BOOLEAN, listed \in SeqsOf(remote) :
          RefreshFinish(rows, listOk, listed)
    \/ Restart

Spec == Init /\ [][Next]_vars

\* A device that adds items and refreshes next to the record of another device.
NextSeeded ==
    \/ \E u \in Users : InitializeNoop(u)
    \/ \E u \in Users, rows \in RowsRead, listOk \in BOOLEAN, listed \in SeqsOf(remote) :
          InitializeOnline(u, rows, listOk, listed)
    \/ \E u \in Users : InitializeOffline(u)
    \/ \E i \in Items, q \in Quantities, ow \in BOOLEAN, o \in Outcomes : AddItem(i, q, ow, o)
    \/ \E rows \in RowsRead, listOk \in BOOLEAN, listed \in SeqsOf(remote) :
          RefreshOnline(rows, listOk, listed)
    \/ RefreshSyncStart
    \/ RefreshOffline
    \/ \E o \in Outcomes : SyncPendingStep(o)
    \/ \E rows \in RowsRead, listOk \in BOOLEAN, listed \in SeqsOf(remote) :
          RefreshFinish(rows, listOk, listed)
    \/ Restart

SpecSeeded == InitSeeded /\ [][NextSeeded]_vars

\* The calls and events around the listener bus.
NextBus ==
    \/ AddListener
    \/ \E i \in 1..MaxListeners : RemoveListener(i)
    \/ GetItems
    \/ ListenerReorders
    \/ \E i \in 1..MaxIds, q \in 1..MaxQty : ListenerWrites(i, q)
    \/ \E u \in Actors : InitializeNoop(u)
    \/ \E u \in Actors, rows \in RowsRead, listOk \in BOOLEAN, listed \in SeqsOf(remote) :
          InitializeOnline(u, rows, listOk, listed)
    \/ \E u \in Actors : InitializeOffline(u)
    \/ Cleanup
    \/ \E i \in Items, q \in Quantities, ow \in BOOLEAN, o \in Outcomes : AddItem(i, q, ow, o)
    \/ \E r \in remote : HandleReorderItemCreated(r)
    \/ \E r \in remote : HandleReorderItemUpdated(r)
    \/ \E id \in DeletedIds : HandleReorderItemDeleted(id)
    \/ Restart

\* The calls and events around the enrichment cache.
NextCache ==
    \/ \E i \in Items, dbOk \in BOOLEAN, o \in Outcomes, p \in TeamPayloads :
          FetchTeamData(i, dbOk, o, p)
    \/ \E i \in Items, p \in TeamPayloads : HandleTeamDataUpdate(i, p)
    \/ Tick
    \/ \E u \in Users, rows \in RowsRead, listOk \in BOOLEAN, listed \in SeqsOf(remote) :
          InitializeOnline(u, rows, listOk, listed)
    \/ \E u \in Users : InitializeOffline(u)
    \/ \E i \in Items, q \in Quantities, ow \in BOOLEAN : AddItemOffline(i, q, ow)

\* refresh and the calls that fill the queue it flushes.
NextRefresh ==
    \/ \E u \in Users, rows \in RowsRead, listOk \in BOOLEAN, listed \in SeqsOf(remote) :
          InitializeOnline(u, rows, listOk, listed)
    \/ \E u \in Users : InitializeOffline(u)
    \/ \E i \in Items, q \in Quantities, ow \in BOOLEAN, o \in Outcomes : AddItem(i, q, ow, o)
    \/ \E id \in KnownIds, o \in Outcomes : RemoveItem(id, o)
    \/ \E rows \in RowsRead, listOk \in BOOLEAN, listed \in SeqsOf(remote) :
          RefreshOnline(rows, listOk, listed)
    \/ RefreshSyncStart
    \/ RefreshOffline
    \/ \E o \in Outcomes : SyncPendingStep(o)
    \/ \E rows \in RowsRead, listOk \in BOOLEAN, listed \in SeqsOf(remote) :
          RefreshFinish(rows, listOk, listed)

\* What refresh does after the probe succeeded with entries waiting: the next turn
\* of the loop, or the reload and broadcast that end it.
RefreshTurn ==
    \/ \E o \in Outcomes : SyncPendingStep(o)
    \/ \E rows \in RowsRead, listOk \in BOOLEAN, listed \in SeqsOf(remote) :
          RefreshFinish(rows, listOk, listed)

\* An emergency-mode session whose remote calls all succeed: the probe, every
\* mutation and the listing.
NextEmergency ==
    \/ \E u \in Users : InitializeNoop(u)
    \/ \E u \in Users, rows \in RowsRead, listed \in SeqsOf(remote) :
          InitializeOnline(u, rows, TRUE, listed)
    \/ \E i \in Items, q \in Quantities, ow \in BOOLEAN : AddItemOnline(i, q, ow, "ok")
    \/ \E q \in Quantities : AddCustomOnline(q, "ok")
    \/ \E id \in KnownIds : RemoveItemOnline(id, "ok")
    \/ \E id \in KnownIds, logOk \in BOOLEAN : ToggleOnline(id, "ok", logOk)
    \/ \E rows \in RowsRead, listed \in SeqsOf(remote) : RefreshOnline(rows, TRUE, listed)
    \/ Restart

SpecBus == InitBus /\ [][NextBus]_vars

SpecCache == Init /\ [][NextCache]_vars

\* Every awaited call of refresh settles, so a started refresh goes on.
SpecRefresh == Init /\ [][NextRefresh]_vars /\ WF_vars(RefreshTurn)

SpecEmergency == InitEmergency /\ [][NextEmergency]_vars

\* The first record of a device that started unreachable and added the catalog item.
QueuedItem == Item(<<"offline", 1>>, <<"cat", 1>>, 1, FALSE, 0, 0, 1)

\* The state after initialize(u1) found the service unreachable (lines 263-267) and
\* addItem created the first record on the offline path (lines 678-728), both at
\* the initial instant.
InitQueued ==
    /\ reorderItems = <<QueuedItem>>
    /\ pendingSyncItems = <<Pending(QueuedItem, FALSE)>>
    /\ isOfflineMode = TRUE
    /\ isInitialized = TRUE
    /\ currentUserId = "u1"
    /\ subscriptions = 0
    /\ emergencyMode = FALSE
    /\ storage = SaveOfflineItems(<<QueuedItem>>)
    /\ localDb = {}
    /\ remote = {}
    /\ clock = 0
    /\ refreshPc = "idle"
    /\ flushArr = << >>
    /\ flushSame = FALSE
    /\ flushIdx = 0
    /\ syncedItems = << >>
    /\ observe = TRUE
    /\ diedWith = {}
    /\ last = Obs("addItem", "offline", QueuedItem.id)
    /\ notified = 0
    /\ listeners = << >>
    /\ orphans = 0
    /\ handed = << >>
    /\ handedLive = FALSE
    /\ teamDataCache = [i \in Items |-> NoEntry]
    /\ teamDb = [i \in Items |-> NoRow]
    /\ wall = 0
    /\ fetched = NoFetch
    /\ history = NoHistory
    /\ http = NoRequest
    /\ scanHistory = << >>

\* refresh with its flush, and the foreground calls that can run between its turns.
NextQueued ==
    \/ \E i \in Items, q \in Quantities, ow \in BOOLEAN, o \in Outcomes : AddItem(i, q, ow, o)
    \/ \E id \in KnownIds, o \in Outcomes, logOk \in BOOLEAN : ToggleCompletion(id, o, logOk)
    \/ \E rows \in RowsRead, listOk \in BOOLEAN, listed \in SeqsOf(remote) :
          RefreshOnline(rows, listOk, listed)
    \/ RefreshSyncStart
    \/ RefreshOffline
    \/ \E o \in Outcomes : SyncPendingStep(o)
    \/ \E rows \in RowsRead, listOk \in BOOLEAN, listed \in SeqsOf(remote) :
          RefreshFinish(rows, listOk, listed)

SpecQueued == InitQueued /\ [][NextQueued]_vars

\* The remote holds the record of another device, and the steps are observed.
InitShared == Fresh /\ remote = {SeedRecord} /\ observe = TRUE

\* A device that loads the shared list, removes records and refreshes; its queue
\* stays empty, so refresh never has entries to flush.
NextShared ==
    \/ \E u \in Users, rows \in RowsRead, listOk \in BOOLEAN, listed \in SeqsOf(remote) :
          InitializeOnline(u, rows, listOk, listed)
    \/ \E u \in Users : InitializeOffline(u)
    \/ \E id \in KnownIds, o \in Outcomes : RemoveItem(id, o)
    \/ \E rows \in RowsRead, listOk \in BOOLEAN, listed \in SeqsOf(remote) :
          RefreshOnline(rows, listOk, listed)
    \/ RefreshOffline
    \/ Restart

\* refresh() is called and its probe succeeds (checkAuthStatus returns true).
RefreshProbe ==
    \E rows \in RowsRead, listOk \in BOOLEAN, listed \in SeqsOf(remote) :
        RefreshOnline(rows, listOk, listed)

\* Connectivity returns and refresh() is called and completes.
SpecShared == InitShared /\ [][NextShared]_vars /\ WF_vars(RefreshProbe)

\* Requests through apiClient and what the network and the server answer.
NextHttp ==
    \/ \E retry \in RetryOptions, bypass \in BOOLEAN : ApiRequest(retry, bypass)
    \/ \E connected \in BOOLEAN, cached \in BOOLEAN : RequestInterceptor(connected, cached)
    \/ \E status \in HttpStatuses, refreshed \in BOOLEAN : Respond(status, refreshed)
    \/ \E status \in HttpStatuses : AuthRespond(status)

\* The step of a request that is under way: every awaited call and every timer of
\* the interceptors settles.
HttpTurn ==
    \/ \E connected \in BOOLEAN, cached \in BOOLEAN : RequestInterceptor(connected, cached)
    \/ \E status \in HttpStatuses, refreshed \in BOOLEAN : Respond(status, refreshed)
    \/ \E status \in HttpStatuses : AuthRespond(status)

SpecHttp == Init /\ [][NextHttp]_vars /\ WF_vars(HttpTurn)

\* The scans recorded in the app store.
NextScan ==
    \/ \E item \in ScanItems : AddScanHistoryItem(item)
    \/ ClearScanHistory

SpecScan == Init /\ [][NextScan]_vars
\* ------------------------------------------------------------------ properties

\* The calls that mutate the list.
MutatingOps == {"addItem", "addCustomItem", "removeItem", "toggleCompletion"}

\* The step just taken committed a call locally (offline path or catch block).
CommittedLocally(op) == last'.op = op /\ last'.path \in {"offline", "fallback"}

\* The step just taken ended a flush: line 1102 ran.
FlushEnded == last'.op = "refresh" /\ last'.path = "synced"

\* The ids syncPendingItems collected in syncedItems.
SyncedIds == {syncedItems[k] : k \in 1..Len(syncedItems)}

\* The fields of a queue entry, without the model's sharing flag.
Snapshot(e) ==
    [id |-> e.id, itemId |-> e.itemId, quantity |-> e.quantity, completed |-> e.completed,
     createdAt |-> e.createdAt, updatedAt |-> e.updatedAt, index |-> e.index]

Snapshots(s) == [i \in 1..Len(s) |-> Snapshot(s[i])]

\* No two elements of s share an id.
UniqueIds(s) == \A i, j \in 1..Len(s) : i # j => s[i].id # s[j].id

\* The display indices of s, read in order, are 1, 2, ..., N.
Dense(s) == \A i \in 1..Len(s) : s[i].index = i

\* C1: in every reachable state no two records of reorderItems share an id.
C1_UniqueIds == UniqueIds(reorderItems)

\* C1 witness: a 'created' event for a record the collection already holds was
\* delivered while the collection holds two records.
C1_Witness ==
    /\ last.op = "created"
    /\ last.path = "ignored"
    /\ Len(reorderItems) >= 2

\* A local commit of addItem or toggleCompletion on a record that has a queue entry
\* replaces that entry in place by the record's snapshot and keeps the others.
C2_ReplaceInPlace ==
    ((CommittedLocally("addItem") \/ CommittedLocally("toggleCompletion"))
        /\ last'.id \in Ids(pendingSyncItems))
    => /\ Len(pendingSyncItems') = Len(pendingSyncItems)
       /\ \A i \in 1..Len(pendingSyncItems) :
              IF pendingSyncItems[i].id = last'.id
              THEN Snapshot(pendingSyncItems'[i]) =
                       reorderItems'[FindIndexById(reorderItems', last'.id)]
              ELSE pendingSyncItems'[i] = pendingSyncItems[i]

\* C2: pendingSyncItems holds at most one entry per record id in every reachable
\* state, and an offline-path addItem or toggleCompletion on a record that already
\* has an entry replaces it in place with the latest snapshot, the length of the
\* queue unchanged.
C2_OneEntryPerId == [](UniqueIds(pendingSyncItems)) /\ [][C2_ReplaceInPlace]_vars

\* C2 witness: a record created offline at time 1, whose entry was queued then, was
\* toggled offline at time 2 and the queue still holds the one entry, completed.
C2_Witness ==
    /\ last.op = "toggleCompletion"
    /\ last.path = "offline"
    /\ last.id[1] = "offline"
    /\ Len(pendingSyncItems) = 1
    /\ pendingSyncItems[1].id = last.id
    /\ pendingSyncItems[1].completed
    /\ pendingSyncItems[1].createdAt = 1
    /\ pendingSyncItems[1].updatedAt = 2

\* The ids whose entry left the queue in the step just taken.
C3_Left == Ids(pendingSyncItems) \ Ids(pendingSyncItems')

\* The flush that just ended had the remote's confirmation for x.
C3_Confirmed(x) == FlushEnded /\ x \in SyncedIds

\* removeItem(x) just removed the record x locally.
C3_Removed(x) == CommittedLocally("removeItem") /\ last'.id = x

C4_FailedTurn == last'.op = "sync" /\ last'.path \in {"fail", "lost", "nodata"}

\* The failed turn leaves the queue and syncedItems as they are and the loop goes on.
C4_EntryStays ==
    C4_FailedTurn =>
        /\ pendingSyncItems' = pendingSyncItems
        /\ syncedItems' = syncedItems
        /\ flushIdx' = flushIdx + 1
        /\ refreshPc' = "sync"

\* The flush ends only after every entry was attempted, and keeps the entries it
\* has no confirmation for, content and order unchanged.
C4_RestKept ==
    FlushEnded =>
        /\ flushIdx >= Len(flushArr)
        /\ Snapshots(pendingSyncItems') =
               Snapshots(SelectSeq(pendingSyncItems, LAMBDA e : e.id \notin SyncedIds))

\* C4: when the flush resubmits an entry and the remote call throws or returns no
\* confirmed record, the entry stays in the queue with its content and position,
\* the remaining entries are still attempted in the same flush, and the queue keeps
\* at most one entry per id through any further flushes.
C4_FailedEntryStays ==
    [](UniqueIds(pendingSyncItems)) /\ [][C4_EntryStays /\ C4_RestKept]_vars

\* C4 witness: a flush over two entries went past both of them, the last one having
\* failed, with nothing confirmed and both entries still queued.
C4_Witness ==
    /\ refreshPc = "sync"
    /\ last.op = "sync"
    /\ last.path \in {"fail", "nodata"}
    /\ Len(flushArr) = 2
    /\ flushIdx = 2
    /\ syncedItems = << >>
    /\ Len(pendingSyncItems) = 2

\* C5 as stated: when initialize runs again after the process died, the queue holds
\* every entry that was queued and not confirmed when it died.
C5_QueueSurvives ==
    [][(~isInitialized /\ isInitialized') => diedWith \subseteq Ids(pendingSyncItems')]_vars

\* The first half of C6: offline, with an empty queue, addItem of a source item that
\* has no record adds one record with a device-minted id and one entry.
C6_OfflineAdd ==
    \A i \in Items, q \in Quantities, ow \in BOOLEAN :
        (AddItemOffline(i, q, ow) /\ pendingSyncItems = << >>
            /\ FindIndexByItemId(reorderItems, i) = 0)
        => /\ Len(reorderItems') = Len(reorderItems) + 1
           /\ Len(pendingSyncItems') = 1
           /\ pendingSyncItems'[1].id[1] = "offline"
           /\ pendingSyncItems'[1].id \in Ids(reorderItems')
           /\ pendingSyncItems'[1].id \notin Ids(reorderItems)

\* The second half of C6: refresh ends, the remote reachable, after its flush had
\* the one entry of an offline-created record confirmed; then the queue is empty
\* and the SQLite table holds a server-id record of that source item.
C6_RefreshConverges ==
    \A rows \in RowsRead, listed \in SeqsOf(remote) :
        (RefreshFinish(rows, TRUE, listed)
            /\ Len(pendingSyncItems) = 1
            /\ pendingSyncItems[1].id[1] = "offline"
            /\ pendingSyncItems[1].itemId \in Items
            /\ syncedItems = <<pendingSyncItems[1].id>>)
        => /\ pendingSyncItems' = << >>
           /\ \E r \in localDb' : r.itemId = pendingSyncItems[1].itemId /\ r.id[1] = "srv"

\* C6 as stated: offline addItem of a new source item gives one record with a
\* client-minted id and one entry; after refresh with the remote confirming the
\* resubmitted create the queue is empty and the Local Store holds a record with
\* the server-assigned id for that source item.
C6_Scenario == [][C6_OfflineAdd /\ C6_RefreshConverges]_vars

\* The quantity C7 expects for addItem(i, q, ow) on the record that exists.
C7_Expected(i, q, ow) ==
    IF ow THEN q ELSE reorderItems[FindIndexByItemId(reorderItems, i)].quantity + q

\* The in-memory record of source item i has the expected quantity and a later updatedAt.
C7_Updated(i, q, ow) ==
    /\ reorderItems'[FindIndexByItemId(reorderItems, i)].quantity = C7_Expected(i, q, ow)
    /\ reorderItems'[FindIndexByItemId(reorderItems, i)].updatedAt >
           reorderItems[FindIndexByItemId(reorderItems, i)].updatedAt

\* addItem(i, q, ow) committed locally: offline path or catch block.
C7_Local(i, q, ow) ==
    AddItemOffline(i, q, ow) \/ \E o \in Outcomes : AddItemFallback(i, q, ow, o)

\* C7 as stated: addItem on a source item that has a record with quantity q0 leaves
\* the in-memory quantity q0 + q (overwrite=false) or q (overwrite=true) and an
\* advanced updatedAt, in offline mode, on the online path and on the fallback path.
C7_Original ==
    [][\A i \in Items, q \in Quantities, ow \in BOOLEAN :
           (FindIndexByItemId(reorderItems, i) > 0
               /\ (C7_Local(i, q, ow) \/ AddItemOnline(i, q, ow, "ok")))
           => C7_Updated(i, q, ow)]_vars

\* C7 amended: in offline mode and on the fallback path the in-memory quantity is
\* q0 + q (overwrite=false) or q (overwrite=true) and updatedAt is advanced; on the
\* online path the remote's record takes that quantity and the in-memory
\* collection is left as it was.
C7_Amended ==
    [][\A i \in Items, q \in Quantities, ow \in BOOLEAN :
           FindIndexByItemId(reorderItems, i) > 0 =>
               /\ C7_Local(i, q, ow) => C7_Updated(i, q, ow)
               /\ AddItemOnline(i, q, ow, "ok") =>
                      /\ reorderItems' = reorderItems
                      /\ \E r \in remote' :
                             /\ r.id = reorderItems[FindIndexByItemId(reorderItems, i)].id
                             /\ r.quantity = C7_Expected(i, q, ow)]_vars

\* C7 witness: addItem fell back on a record that existed; its quantity is the sum
\* 1 + 1 and its updatedAt is later than its createdAt.
C7_Witness ==
    /\ last.op = "addItem"
    /\ last.path = "fallback"
    /\ \E k \in 1..Len(reorderItems) :
           /\ reorderItems[k].id = last.id
           /\ reorderItems[k].quantity = 2
           /\ reorderItems[k].updatedAt > reorderItems[k].createdAt

\* C8 as stated: after a mutating call in online mode whose remote call threw or
\* answered without a confirmed record, the session is in offline mode.
C8_FailureGoesOffline ==
    (last.op \in MutatingOps /\ last.path \in {"fallback", "nodata"}) => isOfflineMode

\* C9 as stated: no addItem call has its write accepted by the remote and also
\* queues a pending entry for it.
C9_Atomic ==
    [][last'.op = "addItem" =>
          ~(remote' # remote /\ pendingSyncItems' # pendingSyncItems)]_vars

\* C10: right after removeItem (offline or fallback path) or a 'deleted' event has
\* removed a record from reorderItems, the indices of the rest are 1, 2, ..., N.
C10_DenseAfterDeletion ==
    [][(last'.op \in {"removeItem", "deleted"} /\ Len(reorderItems') < Len(reorderItems))
          => Dense(reorderItems')]_vars

\* C10 witness: removeItem removed a record locally and at least one record is left.
C10_Witness ==
    /\ last.op = "removeItem"
    /\ last.path \in {"offline", "fallback"}
    /\ last.id # NoId
    /\ last.id \notin Ids(reorderItems)
    /\ Len(reorderItems) >= 1

\* The number of records of s that carry this id.
CountId(s, id) == Cardinality({i \in 1..Len(s) : s[i].id = id})

\* C11: a 'created' event for an id the collection holds leaves the collection
\* unchanged, so the id is held once however often the event is delivered; for a
\* new id the record is appended at the end with display index N + 1.
C11_CreatedIdempotent ==
    [][\A r \in remote :
          HandleReorderItemCreated(r) =>
              /\ CountId(reorderItems', r.id) = 1
              /\ IF r.id \in Ids(reorderItems)
                 THEN reorderItems' = reorderItems
                 ELSE /\ Len(reorderItems') = Len(reorderItems) + 1
                      /\ SubSeq(reorderItems', 1, Len(reorderItems)) = reorderItems
                      /\ reorderItems'[Len(reorderItems')].id = r.id
                      /\ reorderItems'[Len(reorderItems')].index = Len(reorderItems) + 1]_vars

\* C11 witness: the event of the record that an earlier 'created' event appended
\* behind another record was delivered again, and the id is still held once.
C11_Witness ==
    /\ last.op = "created"
    /\ last.path = "ignored"
    /\ Len(reorderItems) >= 2
    /\ reorderItems[Len(reorderItems)].id = last.id
    /\ reorderItems[Len(reorderItems)].index = Len(reorderItems)
    /\ CountId(reorderItems, last.id) = 1

\* C12: a 'deleted' event whose id the collection does not hold changes neither the
\* collection, nor any display index, nor the pending queue, and no listener is
\* notified.
C12_DeletedAbsentNoop ==
    [][\A id \in DeletedIds :
          (HandleReorderItemDeleted(id) /\ id \notin Ids(reorderItems)) =>
              /\ reorderItems' = reorderItems
              /\ pendingSyncItems' = pendingSyncItems
              /\ notified' = 0]_vars

\* C12 witness: a 'deleted' event for an absent id was delivered to a collection
\* that holds a record with a pending entry, and nothing was broadcast.
C12_Witness ==
    /\ last.op = "deleted"
    /\ last.path = "ignored"
    /\ last.id \notin Ids(reorderItems)
    /\ notified = 0
    /\ Len(reorderItems) >= 1
    /\ Len(pendingSyncItems) >= 1

ActorKept(u) == IF u = "undefined" THEN Null ELSE u

\* Some run of initialize(u), short-circuited or not.
InitializeCall(u) ==
    \/ InitializeNoop(u)
    \/ InitializeOffline(u)
    \/ \E rows \in RowsRead, listOk \in BOOLEAN, listed \in SeqsOf(remote) :
           InitializeOnline(u, rows, listOk, listed)

\* C14 as stated: once initialize has completed for an actor, a further initialize
\* with the same actor, the omitted actor included, probes nothing, loads nothing,
\* subscribes to nothing, broadcasts nothing and leaves the engine state unchanged.
C14_Idempotent ==
    [][\A u \in Actors :
          (isInitialized /\ currentUserId = ActorKept(u) /\ InitializeCall(u)) =>
              UNCHANGED <<reorderItems, pendingSyncItems, isOfflineMode, isInitialized,
                          currentUserId, subscriptions, storage, localDb, listeners, handed>>]_vars


\* C15: every run of initialize that is not short-circuited broadcasts at least
\* once before it completes, whether the connectivity probe succeeded (online path)
\* or failed (offline path) and whether or not recovery from the remote store
\* failed; the registered listeners are handed the collection initialize leaves.
C15_InitializeBroadcasts ==
    [][(last'.op = "initialize" /\ last'.path # "noop") =>
           /\ notified' >= 1
           /\ Len(listeners) > 0 => (handedLive' /\ handed' = reorderItems')]_vars

\* C15 witness: initialize ended on the offline path (the probe failed) with a
\* listener registered, which was handed the non-empty collection.
C15_Witness ==
    /\ last.op = "initialize"
    /\ last.path = "offline"
    /\ notified = 1
    /\ Len(listeners) > 0
    /\ Len(reorderItems) > 0
    /\ handed = reorderItems

C17_RefreshMirrorsRemote ==
    [][\A rows \in RowsRead, listed \in SeqsOf(remote) :
          (RefreshOnline(rows, TRUE, listed) \/ RefreshFinish(rows, TRUE, listed)) =>
              /\ Ids(reorderItems') = IdsOf(remote')
              /\ IdsOf(localDb') = IdsOf(remote')]_vars

\* C18 as stated: the first listener added while the engine is not initialized is
\* not invoked until the initialize it triggered has completed, so no listener is
\* ever invoked while it waits and isInitialized is still false.
C18_DeferredUntilInitialized ==
    \A i \in 1..Len(listeners) : ~listeners[i].early

\* C19 as stated: nothing a listener does to the array it was handed, reordering
\* or truncating it or assigning a field of one of its records, changes the
\* engine's collection or its queue.
C19_SnapshotIsolated ==
    [][(ListenerReorders \/ \E i \in 1..MaxIds, q \in 1..MaxQty : ListenerWrites(i, q)) =>
           (reorderItems' = reorderItems /\ pendingSyncItems' = pendingSyncItems)]_vars

\* C20: fetchTeamData for a catalog item whose cache entry is younger than the TTL
\* (now - timestamp < CACHE_DURATION) returns the cached data, makes no Local Store
\* lookup and no remote call, and leaves the cache and the Local Store as they were.
C20_CacheHitServed ==
    [][\A i \in Items, dbOk \in BOOLEAN, o \in Outcomes, p \in TeamPayloads :
          (/\ FetchTeamData(i, dbOk, o, p)
           /\ teamDataCache[i].present
           /\ wall - teamDataCache[i].timestamp < CACHE_DURATION) =>
              /\ fetched' = Fetched(i, teamDataCache[i].data, 0, 0)
              /\ UNCHANGED <<teamDataCache, teamDb>>]_vars

\* C20 witness: a fetch was served from an entry written earlier, without lookup or
\* remote call, although the Local Store holds something else for the item.
C20_Witness ==
    /\ last.op = "fetchTeamData"
    /\ fetched.id \in Items
    /\ fetched.result \in TeamPayloads
    /\ fetched.lookups = 0
    /\ fetched.calls = 0
    /\ teamDb[fetched.id] # fetched.result
    /\ teamDataCache[fetched.id].timestamp < wall

\* C21 as stated, for reads during which nothing fails: fetchTeamData for a catalog
\* item whose cache entry is absent or at least CACHE_DURATION old makes one Local
\* Store lookup and, only if no row is found, one remote call, and leaves a cache
\* entry stamped now, so that a read that follows at once is a cache hit.
C21_OneRefetchThenHit ==
    [][\A i \in Items, o \in {"ok", "nodata"}, p \in TeamPayloads :
          (/\ FetchTeamData(i, TRUE, o, p)
           /\ ~(teamDataCache[i].present /\ wall - teamDataCache[i].timestamp < CACHE_DURATION)) =>
              /\ fetched'.lookups = 1
              /\ fetched'.calls = (IF teamDb[i] = NoRow THEN 1 ELSE 0)
              /\ teamDataCache'[i].present
              /\ teamDataCache'[i].timestamp = wall]_vars

\* The calls and feed events C22 lists.
C22_Mutations ==
    {"addItem", "addCustomItem", "removeItem", "toggleCompletion", "created", "updated", "deleted"}

\* C22 as stated: after each of the listed calls and feed events that changed the
\* in-memory collection, a persisted copy (the AsyncStorage snapshot or the SQLite
\* table) holds the records the collection holds.
C22_PersistedMirrors ==
    [][(last'.op \in C22_Mutations /\ reorderItems' # reorderItems) =>
           \/ storage'.present /\ Ids(storage'.items) = Ids(reorderItems')
           \/ IdsOf(localDb') = Ids(reorderItems')]_vars

\* C23 as stated, in a session whose remote calls all succeed: with the feed
\* disabled, once a refresh has completed the in-memory collection holds the
\* records the remote holds, so every write the remote accepted on the online path
\* is reflected.
C23_EmergencyConverges ==
    [][\A rows \in RowsRead, listed \in SeqsOf(remote) :
          RefreshOnline(rows, TRUE, listed) => Ids(reorderItems') = IdsOf(remote')]_vars

\* The calls that mutate the list on behalf of the user.
C24_Calls == {"addItem", "addCustomItem", "removeItem", "toggleCompletion"}

\* C24: while the session is in offline mode, every addItem, addCustomItem,
\* removeItem and toggleCompletion takes the offline path and sends nothing to the
\* remote, and within the life of the process the session goes back online only by
\* the successful probe of initialize or refresh.
C24_OfflineSticks ==
    [][isOfflineMode =>
          /\ last'.op \in C24_Calls =>
                 (last'.path \in {"offline", "missing"} /\ remote' = remote)
          /\ ~isOfflineMode' =>
                 \/ last'.op \in {"initialize", "refresh"} /\ last'.path \in {"online", "probe"}
                 \/ last'.op = "restart"]_vars

\* C24 witness: in a session that is offline with an entry already waiting, a
\* further call was committed on the offline path.
C24_Witness ==
    /\ isOfflineMode
    /\ last.op \in C24_Calls
    /\ last.path = "offline"
    /\ Len(pendingSyncItems) >= 2

\* C25 as stated: a record that addItem or addCustomItem committed on the offline
\* path and that was still waiting when the process died is, once initialize has
\* completed in the new process, in the in-memory collection or in the queue,
\* whether the probe of that initialize succeeded or not.
C25_OfflineRecordSurvives ==
    [][(~isInitialized /\ isInitialized') =>
           \A id \in diedWith :
               id[1] \in {"offline", "custom"} =>
                   id \in Ids(reorderItems') \cup Ids(pendingSyncItems')]_vars

\* C26: an 'updated' event for an id the collection holds replaces the fields of
\* that record at its position and keeps its display index, the length, the order
\* and every other record staying as they were; for an id the collection does not
\* hold it changes nothing.
C26_UpdatedInPlace ==
    [][\A r \in remote :
          HandleReorderItemUpdated(r) =>
              IF r.id \in Ids(reorderItems)
              THEN /\ Len(reorderItems') = Len(reorderItems)
                   /\ \A k \in 1..Len(reorderItems) :
                          IF reorderItems[k].id = r.id
                          THEN /\ reorderItems'[k].id = r.id
                               /\ reorderItems'[k].itemId = r.itemId
                               /\ reorderItems'[k].quantity = r.quantity
                               /\ reorderItems'[k].completed = r.completed
                               /\ reorderItems'[k].updatedAt = r.updatedAt
                               /\ reorderItems'[k].index = reorderItems[k].index
                          ELSE reorderItems'[k] = reorderItems[k]
              ELSE reorderItems' = reorderItems]_vars

\* C26 witness: an 'updated' event was applied to the first of several records,
\* which now carries the remote's fields.
C26_Witness ==
    /\ last.op = "updated"
    /\ last.path = "feed"
    /\ Len(reorderItems) >= 2
    /\ reorderItems[1].id = last.id
    /\ \E r \in remote : /\ r.id = last.id
                         /\ r.updatedAt = reorderItems[1].updatedAt
                         /\ r.completed = reorderItems[1].completed

\* The calls and events that change the structure of the collection.
C27_Structural ==
    {"addItem", "addCustomItem", "removeItem", "created", "deleted", "initialize", "refresh"}

\* C27 as stated: after every structural change of the collection (append, front
\* insertion, removal, bulk load) the display indices of its records, read in
\* collection order, are 1, 2, ..., N.
C27_IndicesDense ==
    [][(last'.op \in C27_Structural /\ reorderItems' # reorderItems) =>
           Dense(reorderItems')]_vars

\* C28: toggleCompletion calls the history logger only for a record whose
\* completion flag goes from false to true and whose itemId differs from its id;
\* and when the logger throws, the flag is toggled all the same (in memory on the
\* local paths, on the remote when the update was applied) and the call completes.
C28_HistoryBestEffort ==
    [][last'.op = "toggleCompletion" =>
          LET k == FindIndexById(reorderItems, last'.id)
          IN /\ history'.calls > 0 =>
                    /\ k > 0
                    /\ ~reorderItems[k].completed
                    /\ reorderItems[k].itemId # reorderItems[k].id
             /\ history'.failed =>
                    \/ /\ last'.path \in {"offline", "fallback"}
                       /\ reorderItems'[k].completed = ~reorderItems[k].completed
                    \/ /\ last'.path = "online"
                       /\ \E r \in remote' : r.id = last'.id /\ r.completed = ~reorderItems[k].completed
                    \/ /\ last'.path = "nodata"
                       /\ remote' = remote]_vars

\* C28 witness: the history logger threw during an offline toggleCompletion of a
\* catalog item's record, and the record is completed.
C28_Witness ==
    /\ last.op = "toggleCompletion"
    /\ last.path = "offline"
    /\ history.calls = 1
    /\ history.failed
    /\ \E k \in 1..Len(reorderItems) :
           /\ reorderItems[k].id = last.id
           /\ reorderItems[k].completed
           /\ reorderItems[k].itemId # reorderItems[k].id

\* C29: an online refresh with entries waiting starts its flush on the whole queue
\* from the oldest entry; each turn attempts the entry that follows the one before
\* and neither reloads nor broadcasts; the reload comes only when every entry was
\* attempted, and the broadcast that ends the refresh comes with it.
C29_FlushThenReload ==
    [][/\ (last'.op = "refresh" /\ last'.path = "probe") =>
              /\ flushArr' = pendingSyncItems
              /\ flushIdx' = 0
              /\ reorderItems' = reorderItems /\ localDb' = localDb /\ notified' = 0
       /\ last'.op = "sync" =>
              /\ flushIdx < Len(flushArr)
              /\ last'.id = flushArr[flushIdx + 1].id
              /\ flushIdx' = flushIdx + 1
              /\ reorderItems' = reorderItems /\ localDb' = localDb /\ notified' = 0
       /\ (last'.op = "refresh" /\ last'.path = "synced") =>
              /\ refreshPc = "sync"
              /\ flushIdx >= Len(flushArr)
              /\ notified' >= 1]_vars

\* C29 witness: a refresh ended after a flush in which every entry was confirmed:
\* the queue is empty, the remote holds a record, the listeners were notified.
C29_Witness ==
    /\ last.op = "refresh"
    /\ last.path = "synced"
    /\ refreshPc = "idle"
    /\ pendingSyncItems = << >>
    /\ remote # {}
    /\ notified >= 1

\* C30 as stated: across every step (local operation, feed event, refresh, reload
\* of the offline snapshot) the updatedAt of a record that stays in the in-memory
\* collection does not decrease.
C30_UpdatedAtMonotone ==
    [][\A k \in 1..Len(reorderItems), j \in 1..Len(reorderItems') :
          reorderItems[k].id = reorderItems'[j].id =>
              reorderItems'[j].updatedAt >= reorderItems[k].updatedAt]_vars

\* The flush confirmed the id of entry e, and the remote holds no record with the
\* state e carries: e is a mutation made after its older snapshot was re-submitted.
C31_NewerUnconfirmed(e) ==
    /\ e.id \in SyncedIds
    /\ ~\E r \in remote : /\ r.itemId = e.itemId
                          /\ r.quantity = e.quantity
                          /\ r.completed = e.completed

\* C31: an entry that a foreground call put in place of the entry of id X, after
\* the flush in flight had re-submitted the older snapshot of X, is still in the
\* queue when that flush ends.
C31_NewerEntrySurvives ==
    [][FlushEnded =>
          \A i \in 1..Len(pendingSyncItems) :
              C31_NewerUnconfirmed(pendingSyncItems[i])
                  => pendingSyncItems[i].id \in Ids(pendingSyncItems')]_vars

\* C32: once the function addListener returned was called, no step calls that
\* callback: the deferred call of a removed callback never runs, so the count of
\* removed callbacks still awaiting it only falls when the process is restarted.
C32_NoCallAfterUnsubscribe == [][orphans' < orphans => last'.op = "restart"]_vars

\* The initialize calls started by addListener (line 639) that are still in flight.
InFlight == orphans + Cardinality({i \in 1..Len(listeners) : listeners[i].waiting})

\* C33: the engine never holds more than one set of feed subscriptions, and at most
\* one initialize is in flight at a time.
C33_OneSubscriptionSet == subscriptions <= 1 /\ InFlight <= 1

\* The step just taken is a connectivity probe of initialize or refresh that
\* succeeded (checkAuthStatus returned true).
C34_ProbeSucceeded ==
    /\ last'.op \in {"initialize", "refresh"}
    /\ last'.path \in {"online", "probe"}

\* C34: once the probe of initialize or refresh has succeeded on an initialized
\* engine that does not run in emergency mode, the feed subscriptions are active.
C34_OnlineMeansSubscribed ==
    [][(C34_ProbeSucceeded /\ isInitialized' /\ ~emergencyMode') => subscriptions' > 0]_vars

\* removeItem has just removed, on the offline or fallback path, the record of the
\* other device, which the remote holds.
C35_RemovedOffline ==
    /\ last.op = "removeItem"
    /\ last.path \in {"offline", "fallback"}
    /\ last.id = SeedRecord.id
    /\ SeedRecord.id \in IdsOf(remote)

\* The record is absent from the remote and from the collection.
C35_Applied == SeedRecord.id \notin IdsOf(remote) /\ SeedRecord.id \notin Ids(reorderItems)

\* C35: after removeItem completed on the offline or fallback path for a record the
\* remote holds, with refresh() running to completion once connectivity is back,
\* the record is eventually absent from the remote and the collection, for good.
C35_OfflineRemovalApplied == C35_RemovedOffline ~> []C35_Applied

\* C36: in every reachable state the collection holds at most one record per
\* source item (itemId).
C36_OneRecordPerItemId ==
    \A i, j \in 1..Len(reorderItems) :
        i # j => reorderItems[i].itemId # reorderItems[j].itemId

\* C37: one call of toggleCompletion calls the history logger at most once, on the
\* offline path, on the online path and on the fallback path.
C37_LoggedAtMostOnce == [][last'.op = "toggleCompletion" => history'.calls <= 1]_vars

\* The step just taken is a mutating call that ended on the online path with the
\* remote's confirmation.
C38_ConfirmedOnline == last'.op \in MutatingOps /\ last'.path = "online"

\* C38: a mutating call that completes on the online path with a confirmed response
\* leaves the collection, the queue and the AsyncStorage snapshot as they were and
\* makes no broadcast.
C38_OnlineLeavesLocalState ==
    [][C38_ConfirmedOnline =>
          /\ reorderItems' = reorderItems
          /\ pendingSyncItems' = pendingSyncItems
          /\ storage' = storage
          /\ notified' = 0]_vars

\* C38 witness: addItem was confirmed by the remote, which holds the new record,
\* and the collection is still empty.
C38_Witness ==
    /\ last.op = "addItem"
    /\ last.path = "online"
    /\ remote # {}
    /\ reorderItems = << >>
    /\ pendingSyncItems = << >>

\* The count the claim speaks of: the request's own, 2 by default, 0 when retry
\* is false.
C39_Count(retry) ==
    IF retry.kind = "off" THEN 0
    ELSE IF retry.kind = "object" THEN retry.count
    ELSE 2

\* The step just taken rejected a request that had been sent and whose every
\* attempt had failed without a response.
C39_RejectedUnanswered ==
    /\ http.pc # "done"
    /\ http'.pc = "done"
    /\ http'.attempts >= 1
    /\ ~http'.answered
    /\ http'.result \notin {"response", "cached"}

\* C39: a request that keeps failing without a response is re-sent at most count
\* times and is then rejected with a NETWORK_ERROR ApiError, after at most
\* 1 + count attempts.
C39_NetworkRetriesBounded ==
    [][C39_RejectedUnanswered =>
          /\ http'.result = "NETWORK_ERROR"
          /\ http'.attempts <= 1 + C39_Count(http'.retry)]_vars

\* The entries of hist that carry this id.
C40_Count(hist, id) == Cardinality({i \in 1..Len(hist) : hist[i].id = id})

\* addScanHistoryItem puts the item at index 0 and leaves one entry of its id, the
\* new one; the other entries keep their order.
C40_AddedInFront ==
    \A item \in ScanItems :
        AddScanHistoryItem(item) =>
            /\ scanHistory'[1] = item
            /\ C40_Count(scanHistory', item.id) = 1
            /\ \A i \in 2..Len(scanHistory') :
                   \E j \in 1..Len(scanHistory) : scanHistory'[i] = scanHistory[j]

\* C40: after any sequence of addScanHistoryItem and clearScanHistory calls the
\* history holds at most SCAN_HISTORY_LIMIT entries with pairwise distinct ids, and
\* every addScanHistoryItem leaves its item at index 0, moving an id already
\* present to the front with the new content instead of duplicating it.
C40_ScanHistoryBounded ==
    /\ [](Len(scanHistory) <= SCAN_HISTORY_LIMIT /\ UniqueIds(scanHistory))
    /\ [][C40_AddedInFront]_vars

\* C40 witness: the history is full, and the scan just added replaced the older
\* entry of its id, whose content was different, at the front.
C40_Witness ==
    /\ last.op = "addScanHistoryItem"
    /\ last.path = "moved"
    /\ Len(scanHistory) = SCAN_HISTORY_LIMIT
    /\ scanHistory[1].content = "b"
    /\ \A i \in 2..Len(scanHistory) : scanHistory[i].content = "a"
====
